---- MODULE Spec2Model ----
(***************************************************************************)
(* Survey flow engine, graph validator and per-session flow state of the   *)
(* Opros patient-intake backend.                                           *)
(*                                                                         *)
(* Python strings are modelled as sequences of atoms ("texts"): an atom is *)
(* an indivisible chunk of characters (a word such as "selected", a digit, *)
(* one of the symbols = > < . ' and the blank).  Substring search, split   *)
(* and strip work on atoms exactly as the Python methods work on           *)
(* characters.  Node ids are single atoms.                                 *)
(***************************************************************************)
EXTENDS Integers, Sequences, FiniteSets, TLC

\* ------------------------------------------------------------------------
\* Bounds of the model
\* ------------------------------------------------------------------------
\* number of nodes of a graph, and the longest logic list of a node
NumNodes == 3
MaxRules == 2

\* ------------------------------------------------------------------------
\* Python values
\* ------------------------------------------------------------------------
\* Python's None where a node id (a string) is expected.
None == "None"

\* None, int, float (n holds twice the value: halves only), bool, str, list of str
NoneVal == [t |-> "none", n |-> 0, s |-> <<>>, l |-> <<>>]
IntVal(k) == [t |-> "int", n |-> k, s |-> <<>>, l |-> <<>>]
FloatVal(twice) == [t |-> "float", n |-> twice, s |-> <<>>, l |-> <<>>]
BoolVal(b) == [t |-> "bool", n |-> IF b THEN 1 ELSE 0, s |-> <<>>, l |-> <<>>]
StrVal(text) == [t |-> "str", n |-> 0, s |-> text, l |-> <<>>]
ListVal(texts) == [t |-> "list", n |-> 0, s |-> <<>>, l |-> texts]

\* bool(v)
Truthy(v) ==
    CASE v.t = "none" -> FALSE
      [] v.t \in {"int", "float", "bool"} -> v.n # 0
      [] v.t = "str" -> v.s # <<>>
      [] v.t = "list" -> v.l # <<>>

Digits == <<"0", "1", "2", "3", "4", "5", "6", "7", "8", "9">>
IsDigit(a) == \E i \in 1..10 : Digits[i] = a
DigitValue(a) == (CHOOSE i \in 1..10 : Digits[i] = a) - 1

RECURSIVE NatToText(_)
NatToText(k) ==
    IF k < 10 THEN <<Digits[k + 1]>>
    ELSE NatToText(k \div 10) \o <<Digits[(k % 10) + 1]>>

IntToText(k) == IF k < 0 THEN <<"-">> \o NatToText(-k) ELSE NatToText(k)

RECURSIVE ReprList(_)
ReprList(texts) ==
    IF texts = <<>> THEN <<>>
    ELSE <<"'">> \o Head(texts) \o <<"'">>
         \o (IF Len(texts) > 1 THEN <<",", " ">> ELSE <<>>)
         \o ReprList(Tail(texts))

\* str(v)
Str(v) ==
    CASE v.t = "none" -> <<"None">>
      [] v.t = "int" -> IntToText(v.n)
      [] v.t = "float" ->
            (IF v.n < 0 THEN <<"-">> ELSE <<>>)
            \o NatToText((IF v.n < 0 THEN -v.n ELSE v.n) \div 2)
            \o <<".", IF v.n % 2 = 0 THEN "0" ELSE "5">>
      [] v.t = "bool" -> IF v.n = 1 THEN <<"True">> ELSE <<"False">>
      [] v.t = "str" -> v.s
      [] v.t = "list" -> <<"[">> \o ReprList(v.l) \o <<"]">>

\* ------------------------------------------------------------------------
\* str methods
\* ------------------------------------------------------------------------
IsSpace(a) == a = " "

RECURSIVE LStrip(_, _)
LStrip(text, chars) ==
    IF text # <<>> /\ Head(text) \in chars THEN LStrip(Tail(text), chars) ELSE text

RECURSIVE RStrip(_, _)
RStrip(text, chars) ==
    IF text # <<>> /\ text[Len(text)] \in chars
    THEN RStrip(SubSeq(text, 1, Len(text) - 1), chars)
    ELSE text

\* text.strip() and text.strip(chars)
Strip(text) == RStrip(LStrip(text, {" "}), {" "})
\* the characters are left in place
StripChars_Keep(text, chars) == text
StripChars(text, chars) == RStrip(LStrip(text, chars), chars)

\* positions at which pat occurs in text
Occurrences(pat, text) ==
    {i \in 1..(Len(text) - Len(pat) + 1) : SubSeq(text, i, i + Len(pat) - 1) = pat}

\* pat in text
In(pat, text) == pat = <<>> \/ Occurrences(pat, text) # {}

Min(S) == CHOOSE x \in S : \A y \in S : x <= y
Max(S) == CHOOSE x \in S : \A y \in S : x >= y

\* text.split(pat, 1) when pat occurs in text
Split1(text, pat) ==
    LET i == Min(Occurrences(pat, text))
    IN <<SubSeq(text, 1, i - 1), SubSeq(text, i + Len(pat), Len(text))>>

\* text.rsplit(pat, 1) when pat occurs in text
RSplit1(text, pat) ==
    LET i == Max(Occurrences(pat, text))
    IN <<SubSeq(text, 1, i - 1), SubSeq(text, i + Len(pat), Len(text))>>

RECURSIVE DigitsToNat(_, _)
DigitsToNat(text, acc) ==
    IF text = <<>> THEN acc
    ELSE DigitsToNat(Tail(text), 10 * acc + DigitValue(Head(text)))

\* int(text): ok is FALSE where Python raises ValueError
ParseInt(text) ==
    LET body == Strip(text)
        signed == body # <<>> /\ Head(body) \in {"-", "+"}
        digits == IF signed THEN Tail(body) ELSE body
        good == digits # <<>> /\ \A i \in 1..Len(digits) : IsDigit(digits[i])
    IN IF ~good THEN [ok |-> FALSE, n |-> 0]
       ELSE [ok |-> TRUE,
             n |-> IF signed /\ Head(body) = "-"
                   THEN -DigitsToNat(digits, 0) ELSE DigitsToNat(digits, 0)]

\* int(v): truncation toward zero for a float, TypeError for None and a list
IntOf(v) ==
    CASE v.t \in {"int", "bool"} -> [ok |-> TRUE, n |-> v.n]
      [] v.t = "float" ->
            [ok |-> TRUE, n |-> IF v.n < 0 THEN -((-v.n) \div 2) ELSE v.n \div 2]
      [] v.t = "str" -> ParseInt(v.s)
      [] OTHER -> [ok |-> FALSE, n |-> 0]

\* ------------------------------------------------------------------------
\* Python dicts: functions with a finite domain of keys
\* ------------------------------------------------------------------------
EmptyDict == [k \in {} |-> NoneVal]
Put(d, k, v) == [x \in (DOMAIN d) \cup {k} |-> IF x = k THEN v ELSE d[x]]
Del(d, k) == [x \in (DOMAIN d) \ {k} |-> d[x]]

\* An answer: the dict {} is the answer whose recognised keys all read None.
AnswerKeys == {"selected", "value", "text"}
EmptyAnswer == [k \in AnswerKeys |-> NoneVal]

\* ------------------------------------------------------------------------
\* SurveyEngine: condition evaluator
\* ------------------------------------------------------------------------
OpContains == <<"contains">>
OpEq == <<"=", "=">>
OpGe == <<">", "=">>
OpLe == <<"<", "=">>
OpGt == <<">">>
OpLt == <<"<">>
NoOperator == <<>>

\* == is looked for before contains
DetectOperator_EqualityFirst(condition) ==
    IF In(OpEq, condition) THEN OpEq
    ELSE IF In(OpContains, condition) THEN OpContains
    ELSE IF In(OpGe, condition) THEN OpGe
    ELSE IF In(OpLe, condition) THEN OpLe
    ELSE IF In(OpGt, condition) THEN OpGt
    ELSE IF In(OpLt, condition) THEN OpLt
    ELSE NoOperator

\* the operator the if/elif chain selects for a stripped condition
DetectOperator(condition) ==
    IF In(OpContains, condition) THEN OpContains
    ELSE IF In(OpEq, condition) THEN OpEq
    ELSE IF In(OpGe, condition) THEN OpGe
    ELSE IF In(OpLe, condition) THEN OpLe
    ELSE IF In(OpGt, condition) THEN OpGt
    ELSE IF In(OpLt, condition) THEN OpLt
    ELSE NoOperator

_get_answer_value(field, answer) ==
    IF Len(field) = 1 /\ field[1] \in DOMAIN answer THEN answer[field[1]] ELSE NoneVal

\* all_answers.get(node_id, {}) for a node id given as text
PriorAnswer(all_answers, node_id) ==
    IF Len(node_id) = 1 /\ node_id[1] \in DOMAIN all_answers
    THEN all_answers[node_id[1]] ELSE EmptyAnswer

\* a dotted field is read from the current answer as well
ResolveField_CurrentAnswer(field, answer, all_answers) ==
    IF In(<<".">>, field)
    THEN _get_answer_value(RSplit1(field, <<".">>)[2], answer)
    ELSE _get_answer_value(field, answer)

\* the value the condition's field resolves to
ResolveField(field, answer, all_answers) ==
    IF In(<<".">>, field)
    THEN LET sp == RSplit1(field, <<".">>)
         IN _get_answer_value(sp[2], PriorAnswer(all_answers, sp[1]))
    ELSE _get_answer_value(field, answer)

\* every operator compares strictly
CompareInts_Strict(operator, actual, expected) ==
    LET a == IntOf(actual)
        e == ParseInt(expected)
    IN /\ actual.t # "none"
       /\ a.ok
       /\ e.ok
       /\ IF operator \in {OpGt, OpGe} THEN a.n > e.n ELSE a.n < e.n

\* int(actual) <op> int(expected) if actual is not None else False;
\* a ValueError or TypeError of int() is caught and gives False
CompareInts(operator, actual, expected) ==
    LET a == IntOf(actual)
        e == ParseInt(expected)
    IN /\ actual.t # "none"
       /\ a.ok
       /\ e.ok
       /\ CASE operator = OpGt -> a.n > e.n
            [] operator = OpLt -> a.n < e.n
            [] operator = OpGe -> a.n >= e.n
            [] operator = OpLe -> a.n <= e.n

\* int(actual) or int(expected) raises ValueError or TypeError
CompareRaises(actual, expected) ==
    actual.t # "none" /\ (~IntOf(actual).ok \/ ~ParseInt(expected).ok)

\* how a run of the try block ends: with an exception, or returning value
Returned(value) == [raised |-> FALSE, value |-> value]
Raised == [raised |-> TRUE, value |-> FALSE]

\* the try block of _evaluate_condition (lines 119-177)
TryBody(condition, answer, all_answers) ==
    LET c == Strip(condition)
        operator == DetectOperator(c)
    IN IF operator = NoOperator THEN Returned(FALSE)
       ELSE LET parts == Split1(c, operator)
                field == Strip(parts[1])
                expected == StripChars(Strip(parts[2]), {"'", "\""})
                actual == ResolveField(field, answer, all_answers)
            IN CASE operator = OpEq -> Returned(Str(actual) = expected)
                 [] operator = OpContains ->
                       IF actual.t = "list"
                       THEN Returned(\E i \in 1..Len(actual.l) : actual.l[i] = expected)
                       ELSE Returned(Truthy(actual) /\ In(expected, Str(actual)))
                 [] OTHER ->
                       IF CompareRaises(actual, expected) THEN Raised
                       ELSE Returned(CompareInts(operator, actual, expected))

\* the exception leaves the function
ExceptClause_Reraise(body) == body

\* except Exception: log and return False (lines 179-181)
ExceptClause(body) == IF body.raised THEN Returned(FALSE) ELSE body

\* how a call of _evaluate_condition ends
EvaluateOutcome(condition, answer, all_answers) ==
    ExceptClause(TryBody(condition, answer, all_answers))

_evaluate_condition(condition, answer, all_answers) ==
    EvaluateOutcome(condition, answer, all_answers).value

\* ------------------------------------------------------------------------
\* Graph model
\* ------------------------------------------------------------------------
\* rule.get("condition"): None and "" are both falsy and both read <<>> here
NoCondition == <<>>
Rule(condition, next_node, default) ==
    [condition |-> condition, next_node |-> next_node, default |-> default]

Node(id, type, question_text, options, logic, is_final, min_value, max_value) ==
    [id |-> id, type |-> type, question_text |-> question_text, options |-> options,
     logic |-> logic, is_final |-> is_final, min_value |-> min_value,
     max_value |-> max_value]

\* what get_node returns for an id that is not in the graph
NoNode == Node(None, "", <<>>, <<>>, <<>>, FALSE, NoneVal, NoneVal)

\* truthiness of an id-valued field: None and "" are falsy
TruthyId(id) == id # None /\ id # ""

\* ------------------------------------------------------------------------
\* SurveyEngine: navigation
\* ------------------------------------------------------------------------
\* a missing id gives the first node of the list
get_node_FirstWhenMissing(config, node_id) ==
    LET hits == {i \in 1..Len(config.nodes) : config.nodes[i].id = node_id}
    IN IF hits = {} THEN config.nodes[1] ELSE config.nodes[Max(hits)]

\* self.nodes = {node["id"]: node for node in nodes}: the last node of an id wins
get_node(config, node_id) ==
    LET hits == {i \in 1..Len(config.nodes) : config.nodes[i].id = node_id}
    IN IF hits = {} THEN NoNode ELSE config.nodes[Max(hits)]

\* mutant: the bounds check is off by one, so the last node is never a successor
_get_default_next_node_OffByOne(config, current_node_id) ==
    LET nodes_list == config.nodes
        hits == {i \in 1..Len(nodes_list) : nodes_list[i].id = current_node_id}
    IN IF hits = {} THEN None
       ELSE LET i == Min(hits)
            IN IF i + 2 <= Len(nodes_list) THEN nodes_list[i + 1].id ELSE None

_get_default_next_node(config, current_node_id) ==
    LET nodes_list == config.nodes
        hits == {i \in 1..Len(nodes_list) : nodes_list[i].id = current_node_id}
    IN IF hits = {} THEN None
       ELSE LET i == Min(hits)
            IN IF i + 1 <= Len(nodes_list) THEN nodes_list[i + 1].id ELSE None

\* mutant: the loop does not return at the first true condition, the last one wins
ConditionLoop_LastMatch(logic, i, answer, all_answers) ==
    LET hits == {k \in i..Len(logic) :
                    /\ ~logic[k].default
                    /\ logic[k].condition # NoCondition
                    /\ _evaluate_condition(logic[k].condition, answer, all_answers)}
    IN IF hits = {} THEN 0 ELSE Max(hits)

\* first loop (lines 75-85): index of the rule that returns, 0 when the loop ends
RECURSIVE ConditionLoop(_, _, _, _)
ConditionLoop(logic, i, answer, all_answers) ==
    IF i > Len(logic) THEN 0
    ELSE IF logic[i].default THEN ConditionLoop(logic, i + 1, answer, all_answers)
    ELSE IF /\ logic[i].condition # NoCondition
            /\ _evaluate_condition(logic[i].condition, answer, all_answers)
         THEN i
         ELSE ConditionLoop(logic, i + 1, answer, all_answers)

\* mutant: the second loop does not return at the first default rule
DefaultLoop_LastDefault(logic, i) ==
    LET hits == {k \in i..Len(logic) : logic[k].default}
    IN IF hits = {} THEN 0 ELSE Max(hits)

\* second loop (lines 88-92): index of the rule that returns, 0 when the loop ends
RECURSIVE DefaultLoop(_, _)
DefaultLoop(logic, i) ==
    IF i > Len(logic) THEN 0
    ELSE IF logic[i].default THEN i
    ELSE DefaultLoop(logic, i + 1)

\* mutant: no sequential fallback after the two loops, the survey ends instead
get_next_node_NoFallback(config, current_node_id, answer, all_answers) ==
    LET node == get_node(config, current_node_id)
    IN IF node = NoNode THEN None
       ELSE IF node.logic = <<>> THEN _get_default_next_node(config, current_node_id)
       ELSE LET m == ConditionLoop(node.logic, 1, answer, all_answers)
                d == DefaultLoop(node.logic, 1)
            IN IF m # 0 THEN node.logic[m].next_node
               ELSE IF d # 0 THEN node.logic[d].next_node
               ELSE None

get_next_node(config, current_node_id, answer, all_answers) ==
    LET node == get_node(config, current_node_id)
    IN IF node = NoNode THEN None
       ELSE IF node.logic = <<>> THEN _get_default_next_node(config, current_node_id)
       ELSE LET m == ConditionLoop(node.logic, 1, answer, all_answers)
                d == DefaultLoop(node.logic, 1)
            IN IF m # 0 THEN node.logic[m].next_node
               ELSE IF d # 0 THEN node.logic[d].next_node
               ELSE _get_default_next_node(config, current_node_id)

\* ------------------------------------------------------------------------
\* Graph validator (validate_survey_structure)
\* ------------------------------------------------------------------------
\* a ValidationError: kind stands for the message text, ref for the id it quotes
Issue(type, node_id, kind, ref) ==
    [type |-> type, node_id |-> node_id, kind |-> kind, ref |-> ref]

\* node_ids = {n.get("id") for n in nodes}
NodeIdSet(structure) == {structure.nodes[i].id : i \in 1..Len(structure.nodes)}

\* next((n for n in nodes if n.get("id") == node_id), None): the first node of an id
FirstNode(structure, node_id) ==
    structure.nodes[Min({i \in 1..Len(structure.nodes) : structure.nodes[i].id = node_id})]

\* the visited set after collect_reachable(node_id, visited) returns;
\* VisitRules is its loop over the node's logic from rule i on
RECURSIVE collect_reachable(_, _, _)
RECURSIVE VisitRules(_, _, _, _)
collect_reachable(structure, node_id, visited) ==
    IF node_id \in visited \/ node_id \notin NodeIdSet(structure) THEN visited
    ELSE VisitRules(structure, FirstNode(structure, node_id).logic, 1,
                    visited \cup {node_id})

VisitRules(structure, logic, i, visited) ==
    IF i > Len(logic) THEN visited
    ELSE VisitRules(structure, logic, i + 1,
                    IF TruthyId(logic[i].next_node)
                    THEN collect_reachable(structure, logic[i].next_node, visited)
                    ELSE visited)

\* reachable_nodes after line 226
ReachableNodes(structure) ==
    IF TruthyId(structure.start_node) /\ structure.start_node \in NodeIdSet(structure)
    THEN collect_reachable(structure, structure.start_node, {})
    ELSE {}

\* only an unset start_node is an error
StartErrors_OnlyWhenUnset(structure) ==
    IF ~TruthyId(structure.start_node)
    THEN <<Issue("error", None, "no_start_node", None)>>
    ELSE <<>>

\* errors of step 1 (start node)
StartErrors(structure) ==
    IF ~TruthyId(structure.start_node)
    THEN <<Issue("error", None, "no_start_node", None)>>
    ELSE IF structure.start_node \notin NodeIdSet(structure)
    THEN <<Issue("error", structure.start_node, "start_node_not_found",
                 structure.start_node)>>
    ELSE <<>>

\* warning of step 2 (no final node)
FinalWarnings(structure) ==
    IF \E i \in 1..Len(structure.nodes) :
          structure.nodes[i].is_final \/ structure.nodes[i].type = "info_screen"
    THEN <<>>
    ELSE <<Issue("warning", None, "no_final_node", None)>>

\* errors for the dangling rules of a logic list, from rule i on (lines 259-266)
RECURSIVE DanglingErrors(_, _, _, _)
DanglingErrors(structure, node_id, logic, i) ==
    IF i > Len(logic) THEN <<>>
    ELSE (IF TruthyId(logic[i].next_node)
             /\ logic[i].next_node \notin NodeIdSet(structure)
          THEN <<Issue("error", node_id, "dangling_next_node", logic[i].next_node)>>
          ELSE <<>>)
         \o DanglingErrors(structure, node_id, logic, i + 1)

\* errors the loop body (lines 228-283) appends for one node, in order
NodeErrors(structure, node) ==
    (IF node.question_text = <<>>
     THEN <<Issue("error", node.id, "no_question_text", node.id)>> ELSE <<>>)
    \o (IF node.type \in {"single_choice", "multi_choice", "multi_choice_with_input"}
           /\ node.options = <<>>
        THEN <<Issue("error", node.id, "no_options", node.id)>> ELSE <<>>)
    \o DanglingErrors(structure, node.id, node.logic, 1)
    \o (IF node.type = "slider" /\ (node.min_value.t = "none" \/ node.max_value.t = "none")
        THEN <<Issue("error", node.id, "slider_bounds", node.id)>> ELSE <<>>)

\* warnings the loop body appends for one node, in order
NodeWarnings(structure, node) ==
    (IF node.logic = <<>> /\ ~node.is_final /\ node.type # "info_screen"
     THEN <<Issue("warning", node.id, "no_logic", node.id)>> ELSE <<>>)
    \o (IF node.id \notin ReachableNodes(structure) /\ node.id # structure.start_node
        THEN <<Issue("warning", node.id, "unreachable", node.id)>> ELSE <<>>)

RECURSIVE AllNodeErrors(_, _)
AllNodeErrors(structure, i) ==
    IF i > Len(structure.nodes) THEN <<>>
    ELSE NodeErrors(structure, structure.nodes[i]) \o AllNodeErrors(structure, i + 1)

RECURSIVE AllNodeWarnings(_, _)
AllNodeWarnings(structure, i) ==
    IF i > Len(structure.nodes) THEN <<>>
    ELSE NodeWarnings(structure, structure.nodes[i]) \o AllNodeWarnings(structure, i + 1)

\* a graph with warnings is not valid
validate_survey_structure_WarningsInvalidate(structure) ==
    LET errors == StartErrors(structure) \o AllNodeErrors(structure, 1)
        warnings == FinalWarnings(structure) \o AllNodeWarnings(structure, 1)
    IN [valid |-> Len(errors) = 0 /\ Len(warnings) = 0,
        errors |-> errors, warnings |-> warnings]

validate_survey_structure(structure) ==
    LET errors == StartErrors(structure) \o AllNodeErrors(structure, 1)
        warnings == FinalWarnings(structure) \o AllNodeWarnings(structure, 1)
    IN [valid |-> Len(errors) = 0, errors |-> errors, warnings |-> warnings]

\* ------------------------------------------------------------------------
\* Inputs: graphs, answers, prior answers
\* ------------------------------------------------------------------------
IdPool == <<"n1", "n2", "n3", "n4", "n5", "n6">>
NodeIds == {IdPool[i] : i \in 1..NumNodes}

SeqsUpTo(S, n) == UNION {[1..k -> S] : k \in 0..n}

\* conditions of the navigation inputs: "value>5" and "n1.selected == 'yes'"
CondValueGt5 == <<"value", ">", "5">>
CondPriorYes == <<"n1", ".", "selected", " ", "=", "=", " ", "'", "yes", "'">>

\* a well-formed single_choice node with the given logic
PlainNode(id, logic) ==
    Node(id, "single_choice", <<"question">>, <<<<"yes">>, <<"no">>>>, logic, FALSE,
         NoneVal, NoneVal)

Answer(selected, value, text) == [selected |-> selected, value |-> value, text |-> text]

\* answers a client can send: value 3, 5, 6, 9, 5.5, "9", "many"; selected "yes"; {}
Answers ==
    {Answer(NoneVal, v, NoneVal) :
        v \in {IntVal(3), IntVal(5), IntVal(6), IntVal(9), FloatVal(11),
               StrVal(<<"9">>), StrVal(<<"many">>)}}
    \cup {Answer(StrVal(<<"yes">>), NoneVal, NoneVal), EmptyAnswer}

\* prior answers of a session: none, or n1 answered "yes"
PriorAnswers == {EmptyDict, Put(EmptyDict, "n1", Answer(StrVal(<<"yes">>), NoneVal, NoneVal))}

\* rules of the navigation inputs lead to the first or to the last node
NavRules ==
    {Rule(c, t, d) :
        c \in {NoCondition, CondValueGt5, CondPriorYes},
        t \in {IdPool[1], IdPool[NumNodes]}, d \in BOOLEAN}

\* graphs in which one node carries an arbitrary logic list
NavGraphs ==
    {[start_node |-> "n1",
      nodes |-> [i \in 1..NumNodes |->
                    PlainNode(IdPool[i], IF i = owner THEN logic ELSE <<>>)]] :
        owner \in 1..NumNodes, logic \in SeqsUpTo(NavRules, MaxRules)}

\* ------------------------------------------------------------------------
\* Flow state of a session (the Redis value survey:progress:<session id>)
\* ------------------------------------------------------------------------
Range(seq) == {seq[i] : i \in 1..Len(seq)}

\* what get_survey_progress returns when the key is absent
NoProgress == [stored |-> FALSE, current_node |-> None, answers |-> EmptyDict,
               history |-> <<>>]

FlowState(current_node, answers, history) ==
    [stored |-> TRUE, current_node |-> current_node, answers |-> answers,
     history |-> history]

\* the flow state start_survey saves (lines 235-245)
StartProgress(cfg) == FlowState(cfg.start_node, EmptyDict, <<cfg.start_node>>)

\* mutant: the next node is appended to the history whether it is there or not
AnswerUpdate_AppendsAlways(cfg, loaded, node_id, answer_data) ==
    LET p == IF loaded.stored THEN loaded
             ELSE FlowState(cfg.start_node, EmptyDict, <<>>)
        next_node == get_next_node(cfg, node_id, answer_data, p.answers)
    IN FlowState(next_node,
                 Put(p.answers, node_id, answer_data),
                 IF TruthyId(next_node)
                 THEN Append(p.history, next_node) ELSE p.history)

\* submit_answer, lines 311-350: the flow state it saves, from the one it loaded
AnswerUpdate(cfg, loaded, node_id, answer_data) ==
    LET p == IF loaded.stored THEN loaded
             ELSE FlowState(cfg.start_node, EmptyDict, <<>>)
        next_node == get_next_node(cfg, node_id, answer_data, p.answers)
    IN FlowState(next_node,
                 Put(p.answers, node_id, answer_data),
                 IF TruthyId(next_node) /\ next_node \notin Range(p.history)
                 THEN Append(p.history, next_node) ELSE p.history)

\* mutant: the answer of the popped node stays in answers
BackUpdate_KeepsAnswer(loaded) ==
    LET history == SubSeq(loaded.history, 1, Len(loaded.history) - 1)
    IN FlowState(IF history # <<>> THEN history[Len(history)] ELSE "welcome",
                 loaded.answers, history)

\* go_back, lines 640-650: the flow state it saves, from the one it loaded
BackUpdate(loaded) ==
    LET current_node == loaded.history[Len(loaded.history)]
        history == SubSeq(loaded.history, 1, Len(loaded.history) - 1)
        previous_node == IF history # <<>> THEN history[Len(history)] ELSE "welcome"
    IN FlowState(previous_node, Del(loaded.answers, current_node), history)

\* mutant: the guard lets a history of one entry through
BackRejected_OffByOne(loaded) == ~loaded.stored \/ Len(loaded.history) < 1

\* go_back, line 634: not progress or len(progress.get("history", [])) <= 1
BackRejected(loaded) == ~loaded.stored \/ Len(loaded.history) <= 1

\* ------------------------------------------------------------------------
\* Progress numbers, in tenths of a percent
\* ------------------------------------------------------------------------
\* round(num / den * 100, 1) in tenths: the nearest tenth, a tie going to the
\* even one
RoundTenths(num, den) ==
    LET q == (1000 * num) \div den
        r == (1000 * num) % den
    IN IF 2 * r > den \/ (2 * r = den /\ q % 2 = 1) THEN q + 1 ELSE q

\* the nodes that count for the estimate: every type but info_screen
Countable(cfg) == {i \in 1..Len(cfg.nodes) : cfg.nodes[i].type # "info_screen"}

\* ESTIMATED_PATH_LENGTH = max(5, int(len(countable) * 0.6))
EstimatedPathLength(cfg) == Max({5, (6 * Cardinality(Countable(cfg))) \div 10})

\* submit_answer: is_finished for the next node it stored as current_node
IsFinished(cfg, next_node) ==
    IF TruthyId(next_node)
    THEN get_node(cfg, next_node) # NoNode /\ get_node(cfg, next_node).is_final
    ELSE next_node = None

\* submit_answer: the progress of its response, computed from the saved flow state
AnswerPercent(cfg, saved) ==
    IF IsFinished(cfg, saved.current_node) THEN 1000
    ELSE Min({950, RoundTenths(Cardinality(DOMAIN saved.answers),
                               EstimatedPathLength(cfg))})

\* get_progress: progress_percent from the flow state it read (or its default)
ProgressPercent(cfg, read) ==
    Min({1000, RoundTenths(Cardinality(DOMAIN read.answers), Max({Len(cfg.nodes), 1}))})

\* SurveyEngine.calculate_progress(answered_nodes), answered_nodes a sequence;
\* the float it returns is given to the nearest tenth
calculate_progress(cfg, answered_nodes) ==
    LET countable_nodes == {id \in NodeIdSet(cfg) :
                               get_node(cfg, id).type # "info_screen"}
        answered == {i \in 1..Len(answered_nodes) : answered_nodes[i] \in NodeIdSet(cfg)}
    IN IF countable_nodes = {} THEN 1000
       ELSE Min({1000, RoundTenths(Cardinality(answered), Cardinality(countable_nodes))})

\* ------------------------------------------------------------------------
\* State
\* ------------------------------------------------------------------------
VARIABLES
    config,      \* json_config of the survey configuration the session uses
    call,        \* the last call of SurveyEngine.get_next_node and its result
    validation,  \* the last result of validate_survey_structure
    status,      \* SurveySession.status ("none": no session row yet)
    expired,     \* the clock has passed SurveySession.expires_at
    progress,    \* the session's flow state in Redis
    db_answers,  \* the session's SurveyAnswer rows: node_id -> answer_data
    reports,     \* the answer maps of the reports delivered to the CRM
    response,    \* the HTTP response of the request handled in the last step
    requests,    \* the requests in flight (SpecRace): their arguments and locals
    loaded_config, \* the json_config the session's last accepted submit_answer read
    percent,     \* the progress number of the last response, in tenths of a percent
    evaluation,  \* the last call of SurveyEngine._evaluate_condition and its outcome
    search,      \* the validator's reachability search: its call stack and visited set
    surveys,     \* the SurveyConfig rows stored through the editor API
    alerts,      \* the last call of ReportGenerator._generate_v2_alerts and its outcome
    rate,        \* the rate limiter: the Redis key of one identifier and the requests on it
    cleanup,     \* the periodic cleanup task: its position and the ids it selected
    sessions     \* the SurveySession rows of the tokens, their flow states, the start requests

vars == <<config, call, validation, status, expired, progress, db_answers, reports,
          response, requests, loaded_config, percent, evaluation,
          search, surveys, alerts, rate, cleanup, sessions>>

other_vars == <<search, surveys, alerts, rate, cleanup, sessions>>
engine_vars == <<call, validation, evaluation>>
session_vars == <<status, expired, progress, db_answers, reports, response, requests,
                  loaded_config, percent>>

NoCall == [made |-> FALSE, node |-> None, answer |-> EmptyAnswer,
           all_answers |-> EmptyDict, result |-> None,
           repeated |-> FALSE, second |-> None]

\* runs counts the validations of the graph made so far
NoValidation ==
    [made |-> FALSE, runs |-> 0, valid |-> FALSE, errors |-> <<>>, warnings |-> <<>>]

NoEvaluation == [made |-> FALSE, condition |-> <<>>, answer |-> EmptyAnswer,
                 all_answers |-> EmptyDict, raised |-> FALSE, result |-> FALSE]

\* an HTTP response: the endpoint, the status code, the node id it carries
Response(op, code, node) == [op |-> op, code |-> code, node |-> node]
NoResponse == Response("none", 0, None)

\* no json_config read yet; no progress number in the response
NoConfig == [start_node |-> None, nodes |-> <<>>]
NoPercent == -1

\* no search begun, no row stored, no alert computed, no rate-limit key
NoSearch == [started |-> FALSE, stack |-> <<>>, visited |-> {}]
NoAlerts == [made |-> FALSE, answers |-> EmptyDict, raised |-> FALSE, result |-> <<>>]
NoRate == [value |-> 0, ttl |-> FALSE, granted |-> 0, requests |-> <<>>]
\* no cleanup task started, no session row of any token
NoCleanup == [task |-> "none", alive |-> FALSE, pc |-> "idle", session_ids |-> {}, count |-> 0]
NoSessions == [rows |-> <<>>, progress |-> <<>>, blacklist |-> {}, requests |-> <<>>]
NoOther ==
    /\ search = NoSearch
    /\ surveys = <<>>
    /\ alerts = NoAlerts
    /\ rate = NoRate
    /\ cleanup = NoCleanup
    /\ sessions = NoSessions

\* no session row, nothing in Redis, no request handled
NoSession ==
    /\ status = "none"
    /\ expired = FALSE
    /\ progress = NoProgress
    /\ db_answers = EmptyDict
    /\ reports = <<>>
    /\ response = NoResponse
    /\ requests = <<>>
    /\ loaded_config = NoConfig
    /\ percent = NoPercent

\* ------------------------------------------------------------------------
\* The engine as a pure function (SpecNav)
\* ------------------------------------------------------------------------
\* engine.get_next_node(node_id, answer, all_answers) on the current config
CallGetNextNode(node_id, answer, all_answers) ==
    /\ ~call.made
    /\ call' = [made |-> TRUE, node |-> node_id, answer |-> answer,
                all_answers |-> all_answers,
                result |-> get_next_node(config, node_id, answer, all_answers),
                repeated |-> FALSE, second |-> None]
    /\ UNCHANGED <<other_vars, config, validation, evaluation, session_vars>>

InitNav ==
    /\ config \in NavGraphs
    /\ call = NoCall
    /\ validation = NoValidation
    /\ evaluation = NoEvaluation
    /\ NoSession
    /\ NoOther

NextNav ==
    \E node_id \in NodeIds \cup {"ghost"}, answer \in Answers, all_answers \in PriorAnswers :
        CallGetNextNode(node_id, answer, all_answers)

SpecNav == InitNav /\ [][NextNav]_vars

\* ------------------------------------------------------------------------
\* The condition evaluator as a pure function (SpecEval)
\* ------------------------------------------------------------------------
Word(w) == <<w>>
Quoted(text) == <<"'">> \o text \o <<"'">>
\* "<field> <op> <literal>" with single blanks around the operator
Condition(field, operator, literal) == field \o <<" ">> \o operator \o <<" ">> \o literal

FieldSelected == Word("selected")
FieldValue == Word("value")
FieldText == Word("text")
\* "<node_id>.<field>"
Prior(node_id, field) == <<node_id, ".">> \o field

\* the fields, bare or of a prior node, and the literals of the drawn conditions
BareFields == {FieldSelected, FieldValue, FieldText}
PriorNodes == {"n1", "ghost"}
EvalFields == BareFields \cup {Prior(n, f) : n \in PriorNodes, f \in {FieldSelected, FieldValue}}
ContainsLiterals == {Word("cough"), Word("0"), <<>>}
EqLiterals == {Word("yes"), Word("None"), Word("5")}
IntLiterals == {Word("5"), Word("many"), <<"-", "1">>}
IntOperators == {OpGe, OpLe, OpGt, OpLt}

ContainsConditions ==
    {Condition(f, OpContains, Quoted(x)) : f \in EvalFields, x \in ContainsLiterals}

EqConditions == {Condition(f, OpEq, Quoted(x)) : f \in EvalFields, x \in EqLiterals}

IntConditions ==
    {Condition(f, op, x) : f \in EvalFields, op \in IntOperators, x \in IntLiterals}

\* a text that holds operator signs: "a==b>=c"
SignsText == <<"a", "=", "=", "b", ">", "=", "c">>
\* literals that hold the signs of operators later in the chain
SignLiterals == {<<"=", "=">>, <<">", "=">>, <<"<">>}
\* conditions whose literal holds another operator, or the chosen one again
MixedConditions ==
    {Condition(f, OpContains, Quoted(x)) : f \in {FieldValue, FieldSelected}, x \in SignLiterals}
    \cup {Condition(f, OpEq, Quoted(SignsText)) : f \in {FieldValue, FieldSelected}}

\* no operator at all, a single "=", the empty string, an operator without a field
MalformedConditions ==
    {<<"value", " ", "5">>, <<"value", " ", "=", " ", "5">>, <<>>, <<">", "=">>}

EvalConditions ==
    ContainsConditions \cup EqConditions \cup IntConditions \cup MalformedConditions
    \cup MixedConditions \cup {CondValueGt5, CondPriorYes}

EvalAnswers ==
    {Answer(sel, val, txt) :
        sel \in {NoneVal, StrVal(Word("yes")), StrVal(Word("no")), StrVal(<<>>),
                 ListVal(<<Word("cough"), Word("fever")>>), ListVal(<<Word("fever")>>)},
        val \in {NoneVal, IntVal(0), IntVal(5), IntVal(6), FloatVal(11),
                 StrVal(Word("9")), StrVal(Word("many")), BoolVal(TRUE),
                 StrVal(SignsText)},
        txt \in {NoneVal, StrVal(<<>>)}}

EvalPriors ==
    {EmptyDict,
     Put(EmptyDict, "n1", EmptyAnswer),
     Put(EmptyDict, "n1", Answer(StrVal(Word("yes")), IntVal(6), NoneVal)),
     Put(EmptyDict, "n1", Answer(ListVal(<<Word("cough")>>), StrVal(Word("many")), NoneVal))}

\* engine._evaluate_condition(condition, answer, all_answers) on the drawn inputs
Evaluate ==
    /\ ~evaluation.made
    /\ LET outcome == EvaluateOutcome(evaluation.condition, evaluation.answer,
                                      evaluation.all_answers)
       IN evaluation' = [evaluation EXCEPT !.made = TRUE,
                                          !.raised = outcome.raised,
                                          !.result = outcome.value]
    /\ UNCHANGED <<other_vars, config, call, validation, session_vars>>

InitEval ==
    /\ config = NoConfig
    /\ call = NoCall
    /\ validation = NoValidation
    /\ \E c \in EvalConditions, a \in EvalAnswers, p \in EvalPriors :
          evaluation = [made |-> FALSE, condition |-> c, answer |-> a,
                        all_answers |-> p, raised |-> FALSE, result |-> FALSE]
    /\ NoSession
    /\ NoOther

NextEval == Evaluate

SpecEval == InitEval /\ [][NextEval]_vars

\* ------------------------------------------------------------------------
\* The survey API, one request at a time (Spec)
\* ------------------------------------------------------------------------
\* graphs of the sessions, over the nodes n1, n2, n3 in this order
SessionIds == {"n1", "n2", "n3"}
SessionGraph(logic1, logic2, logic3) ==
    [start_node |-> "n1",
     nodes |-> <<PlainNode("n1", logic1), PlainNode("n2", logic2), PlainNode("n3", logic3)>>]

\* no logic at all: n1, n2, n3 in sequence
GraphLinear == SessionGraph(<<>>, <<>>, <<>>)
\* n1 branches: value > 5 skips n2
GraphBranch ==
    SessionGraph(<<Rule(CondValueGt5, "n3", FALSE), Rule(NoCondition, "n2", TRUE)>>,
                 <<>>, <<>>)
\* n2 leads back to n1
GraphCycle == SessionGraph(<<>>, <<Rule(NoCondition, "n1", TRUE)>>, <<>>)
\* n3 leads back to n2 when value > 5 and ends the survey otherwise
GraphRepeat == SessionGraph(<<>>, <<>>, <<Rule(CondValueGt5, "n2", FALSE)>>)

\* the closing screen: an info_screen marked is_final
FinalNode(id) == Node(id, "info_screen", <<"thanks">>, <<>>, <<>>, TRUE, NoneVal, NoneVal)
\* n1, n2 in sequence, then the closing screen n3
GraphFinal ==
    [start_node |-> "n1",
     nodes |-> <<PlainNode("n1", <<>>), PlainNode("n2", <<>>), FinalNode("n3")>>]

SessionGraphs == {GraphLinear, GraphBranch, GraphCycle, GraphRepeat, GraphFinal}

\* answers the session's client sends: value 3 and value 9
SessionAnswers == {Answer(NoneVal, IntVal(3), NoneVal), Answer(NoneVal, IntVal(9), NoneVal)}

\* POST /start (start_survey)
StartSurvey ==
    /\ IF status = "completed"
       THEN /\ response' = Response("start", 401, None)
            /\ UNCHANGED <<status, progress>>
       ELSE IF status # "none"
       THEN /\ response' = Response("start", 200, None)
            /\ UNCHANGED <<status, progress>>
       ELSE /\ status' = "in_progress"
            /\ progress' = StartProgress(config)
            /\ response' = Response("start", 200, None)
    /\ percent' = NoPercent
    /\ UNCHANGED <<other_vars, config, engine_vars, expired, db_answers, reports, requests,
                   loaded_config>>

\* the status of the session is not looked at: a completed session is answered
SubmitAnswer_IgnoresCompleted(node_id, answer_data) ==
    /\ IF status = "none"
       THEN /\ response' = Response("answer", 404, None)
            /\ percent' = NoPercent
            /\ UNCHANGED <<status, progress, db_answers, loaded_config>>
       ELSE IF expired /\ status # "completed"
       THEN /\ status' = "abandoned"
            /\ response' = Response("answer", 410, None)
            /\ percent' = NoPercent
            /\ UNCHANGED <<progress, db_answers, loaded_config>>
       ELSE /\ loaded_config' = config
            /\ db_answers' = Put(db_answers, node_id, answer_data)
            /\ progress' = AnswerUpdate(config, progress, node_id, answer_data)
            /\ response' = Response("answer", 200, progress'.current_node)
            /\ percent' = AnswerPercent(config, progress')
            /\ UNCHANGED status
    /\ UNCHANGED <<other_vars, config, engine_vars, expired, reports, requests>>

\* POST /answer (submit_answer)
SubmitAnswer(node_id, answer_data) ==
    /\ IF status = "none"
       THEN /\ response' = Response("answer", 404, None)
            /\ percent' = NoPercent
            /\ UNCHANGED <<status, progress, db_answers, loaded_config>>
       ELSE IF status = "completed"
       THEN /\ response' = Response("answer", 400, None)
            /\ percent' = NoPercent
            /\ UNCHANGED <<status, progress, db_answers, loaded_config>>
       ELSE IF expired
       THEN /\ status' = "abandoned"
            /\ response' = Response("answer", 410, None)
            /\ percent' = NoPercent
            /\ UNCHANGED <<progress, db_answers, loaded_config>>
       ELSE /\ loaded_config' = config
            /\ db_answers' = Put(db_answers, node_id, answer_data)
            /\ progress' = AnswerUpdate(config, progress, node_id, answer_data)
            /\ response' = Response("answer", 200, progress'.current_node)
            /\ percent' = AnswerPercent(config, progress')
            /\ UNCHANGED status
    /\ UNCHANGED <<other_vars, config, engine_vars, expired, reports, requests>>

\* POST /back (go_back)
GoBack ==
    /\ IF status = "none"
       THEN /\ response' = Response("back", 404, None)
            /\ UNCHANGED progress
       ELSE IF status = "completed" \/ BackRejected(progress)
       THEN /\ response' = Response("back", 400, None)
            /\ UNCHANGED progress
       ELSE /\ progress' = BackUpdate(progress)
            /\ response' = Response("back", 200, progress'.current_node)
    /\ percent' = NoPercent
    /\ UNCHANGED <<other_vars, config, engine_vars, status, expired, db_answers, reports, requests,
                   loaded_config>>

\* GET /progress/{session_id} (get_progress)
GetProgress ==
    /\ IF status = "none"
       THEN /\ response' = Response("progress", 404, None)
            /\ percent' = NoPercent
       ELSE LET read == IF progress.stored THEN progress ELSE StartProgress(config)
            IN /\ response' = Response("progress", 200, read.current_node)
               /\ percent' = ProgressPercent(config, read)
    /\ UNCHANGED <<other_vars, config, engine_vars, status, expired, progress, db_answers, reports,
                   requests, loaded_config>>

\* POST /complete (complete_survey); sent: the report reached the CRM
CompleteSurvey(sent) ==
    /\ IF status = "none"
       THEN /\ response' = Response("complete", 404, None)
            /\ UNCHANGED <<status, progress, reports>>
       ELSE IF status = "completed"
       THEN /\ response' = Response("complete", 200, None)
            /\ UNCHANGED <<status, progress, reports>>
       ELSE /\ reports' = IF sent THEN Append(reports, db_answers) ELSE reports
            /\ status' = "completed"
            /\ progress' = NoProgress
            /\ response' = Response("complete", 200, None)
    /\ percent' = NoPercent
    /\ UNCHANGED <<other_vars, config, engine_vars, expired, db_answers, requests, loaded_config>>

\* the clock passes the session's expires_at (set two hours after the start)
TimePasses ==
    /\ status # "none"
    /\ ~expired
    /\ expired' = TRUE
    /\ response' = NoResponse
    /\ percent' = NoPercent
    /\ UNCHANGED <<other_vars, config, engine_vars, status, progress, db_answers, reports, requests,
                   loaded_config>>

\* one round of periodic_session_cleanup that finds the session expired
SessionCleanup ==
    /\ status = "in_progress"
    /\ expired
    /\ status' = "abandoned"
    /\ response' = NoResponse
    /\ percent' = NoPercent
    /\ UNCHANGED <<other_vars, config, engine_vars, expired, progress, db_answers, reports, requests,
                   loaded_config>>

\* the Redis key of the flow state is gone (its TTL ran out, or Redis dropped it)
ProgressLost ==
    /\ progress.stored
    /\ progress' = NoProgress
    /\ response' = NoResponse
    /\ percent' = NoPercent
    /\ UNCHANGED <<other_vars, config, engine_vars, status, expired, db_answers, reports, requests,
                   loaded_config>>

Init ==
    /\ config \in SessionGraphs
    /\ call = NoCall
    /\ validation = NoValidation
    /\ evaluation = NoEvaluation
    /\ NoSession
    /\ NoOther

Next ==
    \/ StartSurvey
    \/ \E node_id \in SessionIds, answer_data \in SessionAnswers :
          SubmitAnswer(node_id, answer_data)
    \/ GoBack
    \/ GetProgress
    \/ \E sent \in BOOLEAN : CompleteSurvey(sent)
    \/ TimePasses
    \/ SessionCleanup
    \/ ProgressLost

Spec == Init /\ [][Next]_vars

\* ------------------------------------------------------------------------
\* The same call made twice on one engine (SpecRepeat)
\* ------------------------------------------------------------------------
\* the first call has stored its answer in the all_answers it was given
SecondCall_SeesFirstAnswer(cfg, first) ==
    get_next_node(cfg, first.node, first.answer,
                  Put(first.all_answers, first.node, first.answer))

\* get_next_node called again on the same engine with the arguments of the first
\* call: the call reads self.nodes and its arguments and writes none of them
SecondCall(cfg, first) ==
    get_next_node(cfg, first.node, first.answer, first.all_answers)

CallAgain ==
    /\ call.made
    /\ ~call.repeated
    /\ call' = [call EXCEPT !.repeated = TRUE, !.second = SecondCall(config, call)]
    /\ UNCHANGED <<other_vars, config, validation, evaluation, session_vars>>

\* the session graphs, and one whose first node asks for its own recorded answer
RepeatGraphs ==
    SessionGraphs \cup {SessionGraph(<<Rule(CondPriorYes, "n3", FALSE)>>, <<>>, <<>>)}

InitRepeat ==
    /\ config \in RepeatGraphs
    /\ call = NoCall
    /\ validation = NoValidation
    /\ evaluation = NoEvaluation
    /\ NoSession
    /\ NoOther

NextRepeat ==
    \/ \E node_id \in SessionIds \cup {"ghost"}, answer \in Answers,
          all_answers \in PriorAnswers :
          CallGetNextNode(node_id, answer, all_answers)
    \/ CallAgain

SpecRepeat == InitRepeat /\ [][NextRepeat]_vars

\* ------------------------------------------------------------------------
\* The survey API with the editor at work (SpecEdit)
\* ------------------------------------------------------------------------
\* convert_to_json_config: the fields of the structure that the engine reads
convert_to_json_config(structure) ==
    [start_node |-> structure.start_node, nodes |-> structure.nodes]

\* the structures the editor sends: two of the session graphs, and one whose
\* rule names a node that does not exist
EditStructures ==
    {GraphLinear, GraphBranch, SessionGraph(<<Rule(NoCondition, "ghost", TRUE)>>, <<>>, <<>>)}

\* PUT /surveys/{survey_id} (update_survey) on the configuration of the session
UpdateSurvey(structure) ==
    LET json_config == convert_to_json_config(structure)
        result == validate_survey_structure(json_config)
    IN /\ validation' = [made |-> TRUE, runs |-> 1, valid |-> result.valid,
                         errors |-> result.errors, warnings |-> result.warnings]
       /\ IF ~result.valid
          THEN /\ response' = Response("update", 400, None)
               /\ UNCHANGED config
          ELSE /\ config' = json_config
               /\ response' = Response("update", 200, None)
       /\ percent' = NoPercent
       /\ UNCHANGED <<other_vars, call, evaluation, status, expired, progress, db_answers, reports,
                      requests, loaded_config>>

NextEdit ==
    \/ StartSurvey
    \/ \E node_id \in SessionIds, answer_data \in SessionAnswers :
          SubmitAnswer(node_id, answer_data)
    \/ GoBack
    \/ \E sent \in BOOLEAN : CompleteSurvey(sent)
    \/ \E structure \in EditStructures : UpdateSurvey(structure)

SpecEdit == Init /\ [][NextEdit]_vars

\* ------------------------------------------------------------------------
\* Two requests of one session in flight (SpecRace)
\* ------------------------------------------------------------------------
\* Each handler is a coroutine; between its read of the flow state and its write
\* it awaits Redis and the database, and the other request may run meanwhile.
\* pc: "new" -> "loaded" -> ("committed" ->) "done".
Request(op, node_id, answer_data) ==
    [op |-> op, node_id |-> node_id, answer_data |-> answer_data, pc |-> "new",
     loaded |-> NoProgress, code |-> 0]

AnswerRequests ==
    {Request("answer", n, a) : n \in SessionIds, a \in SessionAnswers}
BackRequests == {Request("back", None, EmptyAnswer)}

\* the session has started and n1 was answered with value 3
FirstAnswer == Answer(NoneVal, IntVal(3), NoneVal)
FirstAnswered(cfg) == AnswerUpdate(cfg, StartProgress(cfg), "n1", FirstAnswer)

\* the status checks of submit_answer (lines 279-304): the code of the refusal, or 0
AnswerRefusal ==
    IF status = "none" THEN 404
    ELSE IF status = "completed" THEN 400
    ELSE IF expired THEN 410
    ELSE 0

\* the checks of go_back (lines 617-638) on the flow state it read
BackRefusal(loaded) ==
    IF status = "none" THEN 404
    ELSE IF status = "completed" \/ BackRejected(loaded) THEN 400
    ELSE 0

\* the handler runs up to its read of the flow state (survey.py line 312, line 632)
Load(r) ==
    /\ requests[r].pc = "new"
    /\ LET code == IF requests[r].op = "answer" THEN AnswerRefusal
                   ELSE BackRefusal(progress)
       IN /\ requests' = [requests EXCEPT
                 ![r].pc = IF code # 0 THEN "done" ELSE "loaded",
                 ![r].code = code,
                 ![r].loaded = progress]
          /\ status' = IF requests[r].op = "answer" /\ code = 410
                       THEN "abandoned" ELSE status
          /\ loaded_config' = IF requests[r].op = "answer" /\ code = 0
                              THEN config ELSE loaded_config
    /\ UNCHANGED <<other_vars, config, engine_vars, expired, progress, db_answers, reports, response,
                   percent>>

\* submit_answer stores the SurveyAnswer row and commits (lines 320-340)
Commit(r) ==
    /\ requests[r].pc = "loaded"
    /\ requests[r].op = "answer"
    /\ db_answers' = Put(db_answers, requests[r].node_id, requests[r].answer_data)
    /\ requests' = [requests EXCEPT ![r].pc = "committed"]
    /\ UNCHANGED <<other_vars, config, engine_vars, status, expired, progress, reports, response,
                   loaded_config, percent>>

\* the handler computes the new flow state from the one it read and saves it
\* (lines 342-352, lines 640-652)
Save(r) ==
    /\ \/ requests[r].op = "answer" /\ requests[r].pc = "committed"
       \/ requests[r].op = "back" /\ requests[r].pc = "loaded"
    /\ progress' = IF requests[r].op = "answer"
                   THEN AnswerUpdate(config, requests[r].loaded, requests[r].node_id,
                                     requests[r].answer_data)
                   ELSE BackUpdate(requests[r].loaded)
    /\ requests' = [requests EXCEPT ![r].pc = "done", ![r].code = 200]
    /\ response' = Response(requests[r].op, 200, progress'.current_node)
    /\ percent' = IF requests[r].op = "answer"
                  THEN AnswerPercent(config, progress') ELSE NoPercent
    /\ UNCHANGED <<other_vars, config, engine_vars, status, expired, db_answers, reports,
                   loaded_config>>

InitRace ==
    /\ config \in SessionGraphs
    /\ call = NoCall
    /\ validation = NoValidation
    /\ evaluation = NoEvaluation
    /\ loaded_config = config
    /\ percent = NoPercent
    /\ status = "in_progress"
    /\ expired = FALSE
    /\ progress = FirstAnswered(config)
    /\ db_answers = Put(EmptyDict, "n1", FirstAnswer)
    /\ reports = <<>>
    /\ response = NoResponse
    /\ NoOther
    /\ requests \in {<<a, b>> : a \in AnswerRequests, b \in AnswerRequests \cup BackRequests}

NextRace == \E r \in 1..2 : Load(r) \/ Commit(r) \/ Save(r)

SpecRace == InitRace /\ [][NextRace]_vars

\* ------------------------------------------------------------------------
\* The editor's graphs: validation, and the engine's walk from start_node
\* ------------------------------------------------------------------------
\* a rule of the editor's graphs: conditional or default, to a node, to a node
\* that does not exist, or with an empty next_node
EdgeRules ==
    {Rule(c[1], t, c[2]) :
        c \in {<<CondValueGt5, FALSE>>, <<NoCondition, TRUE>>},
        t \in SessionIds \cup {"ghost", ""}}

\* well-formed nodes, each with at most one rule
GraphsByLogic ==
    {[start_node |-> st,
      nodes |-> <<PlainNode("n1", l[1]), PlainNode("n2", l[2]), PlainNode("n3", l[3])>>] :
        st \in {"n1", "n2"},
        l \in [1..3 -> SeqsUpTo(EdgeRules, 1)]}

\* validate_survey_structure(config)
Validate ==
    /\ ~validation.made
    /\ validation' = [made |-> TRUE, runs |-> 1,
                      valid |-> validate_survey_structure(config).valid,
                      errors |-> validate_survey_structure(config).errors,
                      warnings |-> validate_survey_structure(config).warnings]
    /\ UNCHANGED <<other_vars, config, call, evaluation, session_vars>>

InitValid ==
    /\ config \in GraphsByLogic
    /\ call = NoCall
    /\ validation = NoValidation
    /\ evaluation = NoEvaluation
    /\ NoSession
    /\ NoOther

NextValid ==
    \/ Validate
    \/ \E node_id \in SessionIds \cup {"ghost"}, answer \in SessionAnswers :
          CallGetNextNode(node_id, answer, EmptyDict)

SpecValid == InitValid /\ [][NextValid]_vars

\* the engine is asked for the successor of start_node
WalkStart(answer) ==
    /\ ~call.made
    /\ call' = [made |-> TRUE, node |-> config.start_node, answer |-> answer,
                all_answers |-> EmptyDict,
                result |-> get_next_node(config, config.start_node, answer, EmptyDict),
                repeated |-> FALSE, second |-> None]
    /\ UNCHANGED <<other_vars, config, validation, evaluation, session_vars>>

\* the node the engine returned is answered in turn, as submit_answer does:
\* the answers given so far are the prior answers of the next call
WalkStep(answer) ==
    /\ call.made
    /\ call.result \in NodeIdSet(config)
    /\ LET all_answers == Put(call.all_answers, call.node, call.answer)
       IN call' = [made |-> TRUE, node |-> call.result, answer |-> answer,
                   all_answers |-> all_answers,
                   result |-> get_next_node(config, call.result, answer, all_answers),
                   repeated |-> FALSE, second |-> None]
    /\ UNCHANGED <<other_vars, config, validation, evaluation, session_vars>>

NextWalk == \E answer \in SessionAnswers : WalkStart(answer) \/ WalkStep(answer)

SpecWalk == InitValid /\ [][NextWalk]_vars

\* ------------------------------------------------------------------------
\* The validator on graphs of every shape, run twice, and its search (SpecShape)
\* ------------------------------------------------------------------------
MaxRuns == 2
MaxDepth == 4

\* the third node of the editor's graphs: well-formed, without question_text,
\* a choice without options, a slider with and without max_value, a closing screen
ShapeNodes ==
    {PlainNode("n3", <<>>),
     Node("n3", "text_input", <<>>, <<>>, <<>>, FALSE, NoneVal, NoneVal),
     Node("n3", "multi_choice", <<"question">>, <<>>, <<>>, FALSE, NoneVal, NoneVal),
     Node("n3", "slider", <<"question">>, <<>>, <<>>, FALSE, IntVal(0), NoneVal),
     Node("n3", "slider", <<"question">>, <<>>, <<>>, FALSE, IntVal(0), IntVal(10)),
     FinalNode("n3")}

\* start_node names a node, names no node, is empty or is absent
ShapeGraphs ==
    {[start_node |-> st, nodes |-> <<PlainNode("n1", l[1]), PlainNode("n2", l[2]), n3>>] :
        st \in {"n1", "n2", "ghost", "", None},
        l \in [1..2 -> SeqsUpTo(EdgeRules, 1)],
        n3 \in ShapeNodes}

\* POST /validate-structure again on the same graph
Revalidate ==
    /\ validation.made
    /\ validation.runs < MaxRuns
    /\ validation' = [made |-> TRUE, runs |-> validation.runs + 1,
                      valid |-> validate_survey_structure(config).valid,
                      errors |-> validate_survey_structure(config).errors,
                      warnings |-> validate_survey_structure(config).warnings]
    /\ UNCHANGED <<other_vars, config, call, evaluation, session_vars>>

\* the call collect_reachable(node_id, visited) up to its loop: it returns at once
\* on a visited or unknown id, and otherwise marks the node and opens its frame
EnterNode_IgnoresVisited(structure, node_id, s) ==
    IF node_id \notin NodeIdSet(structure) THEN s
    ELSE [s EXCEPT !.visited = @ \cup {node_id},
                   !.stack = Append(@, [node |-> node_id, rule |-> 1])]

EnterNode(structure, node_id, s) ==
    IF node_id \in s.visited \/ node_id \notin NodeIdSet(structure) THEN s
    ELSE [s EXCEPT !.visited = @ \cup {node_id},
                   !.stack = Append(@, [node |-> node_id, rule |-> 1])]

\* lines 225-226: the search begins at start_node when it names a node
SearchStart ==
    /\ ~search.started
    /\ LET begun == [started |-> TRUE, stack |-> <<>>, visited |-> {}]
       IN search' = IF TruthyId(config.start_node)
                       /\ config.start_node \in NodeIdSet(config)
                    THEN EnterNode(config, config.start_node, begun)
                    ELSE begun
    /\ UNCHANGED <<surveys, alerts, rate, cleanup, sessions, config, engine_vars, session_vars>>

\* one turn of the innermost call's loop over its node's logic: the next rule is
\* followed, or the call returns when the rules are used up
SearchStep ==
    /\ search.started
    /\ search.stack # <<>>
    /\ Len(search.stack) <= MaxDepth
    /\ LET depth == Len(search.stack)
           top == search.stack[depth]
           logic == FirstNode(config, top.node).logic
       IN search' =
            IF top.rule > Len(logic)
            THEN [search EXCEPT !.stack = SubSeq(@, 1, depth - 1)]
            ELSE LET turned == [search EXCEPT !.stack[depth].rule = @ + 1]
                     next_id == logic[top.rule].next_node
                 IN IF TruthyId(next_id) THEN EnterNode(config, next_id, turned)
                    ELSE turned
    /\ UNCHANGED <<surveys, alerts, rate, cleanup, sessions, config, engine_vars, session_vars>>

InitShape ==
    /\ config \in ShapeGraphs
    /\ call = NoCall
    /\ validation = NoValidation
    /\ evaluation = NoEvaluation
    /\ NoSession
    /\ NoOther

NextShape == Validate \/ Revalidate \/ SearchStart \/ SearchStep

\* the handler runs the search to its end before it answers
SpecShape == InitShape /\ [][NextShape]_vars /\ WF_vars(SearchStart \/ SearchStep)

\* ------------------------------------------------------------------------
\* Navigation claims (checked under SpecNav)
\* ------------------------------------------------------------------------
\* the node the last call was made on, and its logic list
CallNode == get_node(config, call.node)
CallLogic == CallNode.logic

\* non-default rules whose condition is true for the call's answers
TrueRules ==
    {i \in 1..Len(CallLogic) :
        /\ ~CallLogic[i].default
        /\ CallLogic[i].condition # NoCondition
        /\ _evaluate_condition(CallLogic[i].condition, call.answer, call.all_answers)}

DefaultRules == {i \in 1..Len(CallLogic) : CallLogic[i].default}

\* the config with the logic list of node_id replaced
WithLogic(cfg, node_id, logic) ==
    [cfg EXCEPT !.nodes =
        [i \in 1..Len(cfg.nodes) |->
            IF cfg.nodes[i].id = node_id
            THEN [cfg.nodes[i] EXCEPT !.logic = logic] ELSE cfg.nodes[i]]]

\* the id that follows node_id in the node list, None after the last node
Following(cfg, node_id) ==
    LET p == CHOOSE i \in 1..Len(cfg.nodes) : cfg.nodes[i].id = node_id
    IN IF p = Len(cfg.nodes) THEN None ELSE cfg.nodes[p + 1].id

\* C1: on a node with logic rules, the result is the next_node of the first
\* non-default rule (in declaration order) whose condition is true, and the
\* rules declared after that rule do not affect the result.
C1_FirstMatchWins ==
    (call.made /\ CallNode # NoNode /\ TrueRules # {}) =>
        LET first == Min(TrueRules)
        IN /\ call.result = CallLogic[first].next_node
           /\ call.result =
                get_next_node(WithLogic(config, call.node, SubSeq(CallLogic, 1, first)),
                              call.node, call.answer, call.all_answers)

\* two rules with different targets are true and the first one was taken
C1_Witness ==
    /\ call.made
    /\ Cardinality(TrueRules) >= 2
    /\ CallLogic[Min(TrueRules)].next_node # CallLogic[Max(TrueRules)].next_node
    /\ call.result = CallLogic[Min(TrueRules)].next_node

\* the example of C2: logic = [value>5 -> A, default -> B]
IsExampleLogic ==
    /\ Len(CallLogic) = 2
    /\ CallLogic[1].condition = CondValueGt5 /\ ~CallLogic[1].default
    /\ CallLogic[2].default

\* when no non-default rule is true and some rule is flagged default, the result
\* is the next_node of the first rule flagged default
FirstDefaultWins ==
    (call.made /\ CallNode # NoNode /\ TrueRules = {} /\ DefaultRules # {}) =>
        call.result = CallLogic[Min(DefaultRules)].next_node

\* C2 as claimed: FirstDefaultWins, and in the example every answer value <= 5
\* (a number) resolves to B and every value > 5 resolves to A.
C2_AsClaimed ==
    /\ FirstDefaultWins
    /\ (call.made /\ IsExampleLogic /\ call.answer.value.t \in {"int", "float"}) =>
          LET twice == IF call.answer.value.t = "int"
                       THEN 2 * call.answer.value.n ELSE call.answer.value.n
          IN call.result = IF twice > 10 THEN CallLogic[1].next_node
                           ELSE CallLogic[2].next_node

\* C2 (amended): FirstDefaultWins, and in the example every integer answer value
\* <= 5 resolves to B and every integer value > 5 resolves to A; a non-integer
\* number is truncated toward zero before it is compared.
C2_DefaultRule ==
    /\ FirstDefaultWins
    /\ (call.made /\ IsExampleLogic /\ call.answer.value.t \in {"int", "float"}) =>
          LET whole == IF call.answer.value.t = "int"
                       THEN call.answer.value.n ELSE call.answer.value.n \div 2
          IN call.result = IF whole > 5 THEN CallLogic[1].next_node
                           ELSE CallLogic[2].next_node

\* no rule is true, two default rules name different targets, the first was taken
C2_Witness ==
    /\ call.made
    /\ TrueRules = {}
    /\ Cardinality(DefaultRules) >= 2
    /\ CallLogic[Min(DefaultRules)].next_node # CallLogic[Max(DefaultRules)].next_node
    /\ call.result = CallLogic[Min(DefaultRules)].next_node

\* C3: for a node without logic rules the result is the id of the node that
\* follows it in the node list, and None for the last node, whatever the answer.
C3_SequentialDefault ==
    (call.made /\ CallNode # NoNode /\ CallLogic = <<>>) =>
        call.result = Following(config, call.node)

\* a call on a node without logic that is not the last one, with an answer
C3_Witness ==
    /\ call.made
    /\ CallNode # NoNode /\ CallLogic = <<>>
    /\ call.answer # EmptyAnswer
    /\ call.result # None
    /\ call.result = Following(config, call.node)

\* C4: for a node with logic rules none of which is true and none of which is
\* flagged default, the result is the sequential default.
C4_FallbackToSequential ==
    (call.made /\ CallNode # NoNode /\ CallLogic # <<>>
        /\ TrueRules = {} /\ DefaultRules = {}) =>
        call.result = Following(config, call.node)

\* a node with a conditional rule that is false and no default: the next node in the list
C4_Witness ==
    /\ call.made
    /\ CallNode # NoNode /\ CallLogic # <<>>
    /\ \E i \in 1..Len(CallLogic) : CallLogic[i].condition # NoCondition
    /\ TrueRules = {} /\ DefaultRules = {}
    /\ call.result # None
    /\ call.result = Following(config, call.node)

\* C17: a call on a node id that is not in the graph returns None, for every
\* answer and all prior answers.
C17_MissingNodeGivesNone ==
    (call.made /\ call.node \notin NodeIdSet(config)) => call.result = None

\* a call on the id ghost, with an answer and prior answers, returned None
C17_Witness ==
    /\ call.made
    /\ call.node = "ghost"
    /\ call.answer # EmptyAnswer
    /\ call.all_answers # EmptyDict
    /\ call.result = None

Last(seq) == seq[Len(seq)]

\* C5: a go_back request on a session whose flow state is missing or whose
\* history has at most one entry is answered with an error and leaves the
\* stored flow state unchanged; go_back never leaves history empty.
C5_BackRejectedAtStart ==
    [][response'.op = "back" =>
          /\ (~progress.stored \/ Len(progress.history) <= 1) =>
                (response'.code >= 400 /\ progress' = progress)
          /\ progress' # progress => Len(progress'.history) >= 1]_vars

\* a go_back on a started session whose history is [start_node] was refused
C5_Witness ==
    /\ response = Response("back", 400, None)
    /\ status = "in_progress"
    /\ progress.stored
    /\ progress.history = <<config.start_node>>
    /\ progress.current_node = config.start_node

\* C6: a successful go_back (history longer than one entry) removes exactly the
\* last history entry, deletes that node's answer from answers, makes the new
\* last history entry the current node and keeps all other answers.
C6_BackPopsLast ==
    [][(response'.op = "back" /\ response'.code = 200) =>
          LET popped == Last(progress.history)
          IN /\ Len(progress.history) > 1
             /\ progress'.history = SubSeq(progress.history, 1, Len(progress.history) - 1)
             /\ DOMAIN progress'.answers = (DOMAIN progress.answers) \ {popped}
             /\ \A n \in DOMAIN progress'.answers :
                   progress'.answers[n] = progress.answers[n]
             /\ progress'.current_node = Last(progress'.history)]_vars

\* a go_back succeeded, removed an answer that the database still holds, and
\* kept another answer
C6_Witness ==
    /\ response.op = "back" /\ response.code = 200
    /\ progress.stored
    /\ progress.answers # EmptyDict
    /\ (DOMAIN db_answers) \ (DOMAIN progress.answers) # {}

\* C7: whenever current_node is a node id, it is the last entry of history
\* (history is the stack of visited nodes in traversal order).
C7_CurrentIsLastOfHistory ==
    (progress.stored /\ progress.current_node \in NodeIdSet(config)) =>
        (progress.history # <<>> /\ Last(progress.history) = progress.current_node)

\* the node is an end of the survey: there is no next node, or it is marked
\* is_final
Terminal(node) ==
    \/ node = None
    \/ node \in NodeIdSet(config) /\ get_node(config, node).is_final

C20_FlowStateLifetime ==
    /\ (response = Response("start", 200, None) /\ status = "in_progress"
            /\ db_answers = EmptyDict /\ progress.stored)
          => progress = FlowState(config.start_node, EmptyDict, <<config.start_node>>)
    /\ status \in {"completed", "abandoned"} => ~progress.stored

\* ------------------------------------------------------------------------
\* Concurrent writers of one flow state (checked under SpecRace)
\* ------------------------------------------------------------------------
\* the flow state after request q alone has run on flow state p
Apply(p, q) ==
    IF q.op = "answer" THEN AnswerUpdate(config, p, q.node_id, q.answer_data)
    ELSE IF BackRejected(p) THEN p
    ELSE BackUpdate(p)

\* C8: after both requests have finished, the stored flow state is the result
\* of running them one after the other, in one of the two orders.
C8_WritersSerialize ==
    (requests[1].pc = "done" /\ requests[2].pc = "done") =>
        progress \in {Apply(Apply(FirstAnswered(config), requests[1]), requests[2]),
                      Apply(Apply(FirstAnswered(config), requests[2]), requests[1])}

\* ------------------------------------------------------------------------
\* Validator against the engine (checked under SpecWalk and SpecValid)
\* ------------------------------------------------------------------------
\* the nodes the validator reports as unreachable
ReportedUnreachable(structure) ==
    {w.node_id : w \in {x \in Range(validate_survey_structure(structure).warnings) :
                            x.kind = "unreachable"}}

\* C9: every node the engine makes current on a walk from start_node is in the
\* validator's reachable set and is not reported as unreachable.
C9_ReachableOverApproximates ==
    (call.made /\ call.result \in NodeIdSet(config)) =>
        /\ call.result \in ReachableNodes(config)
        /\ call.result \notin ReportedUnreachable(config)

\* C10: on a graph the validator reports valid, get_next_node on an existing
\* node returns None or the id of an existing node.
C10_ValidGraphNeverDangles ==
    (validation.made /\ validation.valid /\ call.made
        /\ call.node \in NodeIdSet(config)) =>
        (call.result = None \/ call.result \in NodeIdSet(config))

\* ------------------------------------------------------------------------
\* The graph of a session in progress (checked under SpecEdit)
\* ------------------------------------------------------------------------
\* C11: every accepted submit_answer of a session reads the same graph as the
\* accepted submit_answer before it, also when update_survey ran in between.
C11_GraphFixedDuringSession ==
    [][(response'.op = "answer" /\ response'.code = 200 /\ loaded_config # NoConfig) =>
          loaded_config' = loaded_config]_vars

\* ------------------------------------------------------------------------
\* Condition evaluator claims (checked under SpecEval)
\* ------------------------------------------------------------------------
\* the evaluated condition is "<f> <op> <lit>"
EvalIs(f, op, lit) == evaluation.condition = Condition(f, op, lit)

\* the value the field f stands for: a bare field is the current answer's, a
\* field of a prior node is that node's recorded answer's, None without one
Denoted(f) ==
    IF f \in BareFields THEN evaluation.answer[f[1]]
    ELSE IF f[1] \in DOMAIN evaluation.all_answers
    THEN evaluation.all_answers[f[1]][f[3]]
    ELSE NoneVal

\* how the try block ended for the evaluated inputs
EvalBody == TryBody(evaluation.condition, evaluation.answer, evaluation.all_answers)

\* C12: a call of the evaluator never raises and returns a boolean; it returns
\* false when the condition has no recognised operator and when its evaluation
\* faulted.
C12_EvaluationNeverRaises ==
    evaluation.made =>
        /\ ~evaluation.raised
        /\ evaluation.result \in BOOLEAN
        /\ (DetectOperator(Strip(evaluation.condition)) = NoOperator \/ EvalBody.raised)
              => evaluation.result = FALSE

\* int() raised inside the try block and the call returned false
C12_Witness ==
    /\ evaluation.made
    /\ EvalBody.raised
    /\ ~evaluation.raised
    /\ evaluation.result = FALSE

\* C13: a contains condition is a membership test when the field's value is a
\* list and a substring test on the value's string form otherwise, for every
\* value the answer holds, 0 and the empty string included.
C13_ContainsIsMembershipOrSubstring ==
    evaluation.made =>
        \A f \in EvalFields, x \in ContainsLiterals :
            (EvalIs(f, OpContains, Quoted(x)) /\ Denoted(f) # NoneVal) =>
                evaluation.result =
                    IF Denoted(f).t = "list"
                    THEN \E i \in 1..Len(Denoted(f).l) : Denoted(f).l[i] = x
                    ELSE In(x, Str(Denoted(f)))

\* C14 as claimed: an == condition is true exactly when the string form of the
\* field's value equals the literal without its quotes, and it is false when
\* the field is absent.
C14_AsClaimed ==
    evaluation.made =>
        \A f \in EvalFields, x \in EqLiterals :
            EvalIs(f, OpEq, Quoted(x)) =>
                /\ evaluation.result <=> (Str(Denoted(f)) = x)
                /\ Denoted(f) = NoneVal => ~evaluation.result

\* C14 (amended): an == condition is true exactly when the string form of the
\* field's value equals the literal without its quotes; an absent field reads
\* None, so the condition is then true exactly when the literal is None.
C14_StringEquality ==
    evaluation.made =>
        \A f \in EvalFields, x \in EqLiterals :
            EvalIs(f, OpEq, Quoted(x)) =>
                /\ evaluation.result <=> (Str(Denoted(f)) = x)
                /\ Denoted(f) = NoneVal => (evaluation.result <=> x = Word("None"))

\* selected == 'None' was evaluated on an answer without selected, and is true
C14_Witness ==
    /\ evaluation.made
    /\ EvalIs(FieldSelected, OpEq, Quoted(Word("None")))
    /\ evaluation.answer.selected = NoneVal
    /\ evaluation.result

\* a <op> e on integers
Compares(op, a, e) ==
    CASE op = OpGe -> a >= e
      [] op = OpLe -> a <= e
      [] op = OpGt -> a > e
      [] op = OpLt -> a < e

\* C15: for >=, <=, > and < both sides are coerced to integers and compared
\* with the operator; the condition is false when the value is absent or a
\* side cannot be coerced, and no exception escapes.
C15_IntegerComparison ==
    evaluation.made =>
        \A f \in EvalFields, op \in IntOperators, x \in IntLiterals :
            EvalIs(f, op, x) =>
                LET a == IntOf(Denoted(f))
                    e == ParseInt(x)
                IN /\ ~evaluation.raised
                   /\ evaluation.result <=>
                         /\ Denoted(f) # NoneVal
                         /\ a.ok
                         /\ e.ok
                         /\ Compares(op, a.n, e.n)

\* value >= 5 was evaluated on value 5.5, which is coerced to 5, and is true
C15_Witness ==
    /\ evaluation.made
    /\ EvalIs(FieldValue, OpGe, Word("5"))
    /\ evaluation.answer.value = FloatVal(11)
    /\ evaluation.result

\* the evaluated condition names a field of a prior node
EvalIsPrior == Len(evaluation.condition) >= 3 /\ evaluation.condition[2] = "."
\* the same condition on the bare field
EvalBare == SubSeq(evaluation.condition, 3, Len(evaluation.condition))
\* the recorded answer of the node the condition names, {} without one
EvalPriorAnswer ==
    IF evaluation.condition[1] \in DOMAIN evaluation.all_answers
    THEN evaluation.all_answers[evaluation.condition[1]] ELSE EmptyAnswer

\* C16: a condition on <node_id>.<field> has the same result for every current
\* answer, namely that of the bare condition on the recorded answer of node_id
\* (on no value when there is none); a condition on a bare field has the same
\* result for all prior answers.
C16_FieldSource ==
    evaluation.made =>
        IF EvalIsPrior
        THEN /\ \A a \in EvalAnswers :
                   _evaluate_condition(evaluation.condition, a, evaluation.all_answers)
                       = evaluation.result
             /\ evaluation.result
                   = _evaluate_condition(EvalBare, EvalPriorAnswer, EmptyDict)
        ELSE \A p \in EvalPriors :
                _evaluate_condition(evaluation.condition, evaluation.answer, p)
                    = evaluation.result

\* n1.selected == 'yes' is true on the recorded answer of n1 while the current
\* answer says no
C16_Witness ==
    /\ evaluation.made
    /\ EvalIs(Prior("n1", FieldSelected), OpEq, Quoted(Word("yes")))
    /\ "n1" \in DOMAIN evaluation.all_answers
    /\ evaluation.answer.selected = StrVal(Word("no"))
    /\ evaluation.result

\* C27: a condition that holds contains is a contains-predicate also when its
\* literal holds == or an inequality sign; a condition with == and no contains
\* is an equality also when its literal holds == again or an inequality sign,
\* and its literal begins after the first ==; >= and <= are read as such and
\* not as > and < followed by "=".
C27_OperatorPriority ==
    evaluation.made =>
        /\ \A f \in {FieldValue, FieldSelected}, x \in SignLiterals :
              EvalIs(f, OpContains, Quoted(x)) =>
                  evaluation.result =
                      IF Denoted(f).t = "list"
                      THEN \E i \in 1..Len(Denoted(f).l) : Denoted(f).l[i] = x
                      ELSE Truthy(Denoted(f)) /\ In(x, Str(Denoted(f)))
        /\ \A f \in {FieldValue, FieldSelected} :
              EvalIs(f, OpEq, Quoted(SignsText)) =>
                  (evaluation.result <=> Str(Denoted(f)) = SignsText)
        /\ \A f \in EvalFields, op \in {OpGe, OpLe}, x \in IntLiterals :
              EvalIs(f, op, x) =>
                  (evaluation.result <=>
                      /\ Denoted(f) # NoneVal
                      /\ IntOf(Denoted(f)).ok
                      /\ ParseInt(x).ok
                      /\ Compares(op, IntOf(Denoted(f)).n, ParseInt(x).n))

\* value contains '==' was evaluated on the value "a==b>=c", and is true
C27_Witness ==
    /\ evaluation.made
    /\ EvalIs(FieldValue, OpContains, Quoted(<<"=", "=">>))
    /\ evaluation.answer.value = StrVal(SignsText)
    /\ evaluation.result

\* ------------------------------------------------------------------------
\* Completed and expired sessions (checked under Spec)
\* ------------------------------------------------------------------------
\* C28: on a completed session submit_answer and go_back are rejected and leave
\* the stored answers and the flow state as they were, and complete_survey
\* returns success and leaves the session, its answers and its reports as they
\* were.
C28_CompletedIsFinal ==
    [][status = "completed" =>
          /\ (response'.op \in {"answer", "back"} /\ response' # response) =>
                /\ response'.code = 400
                /\ status' = status
                /\ db_answers' = db_answers
                /\ progress' = progress
          /\ response'.op \in {"answer", "back"} =>
                (db_answers' = db_answers /\ progress' = progress /\ status' = status)
          /\ response'.op = "complete" =>
                /\ response'.code = 200
                /\ status' = status
                /\ db_answers' = db_answers
                /\ progress' = progress
                /\ reports' = reports]_vars

\* an answer was refused on a completed session that has answers
C28_Witness ==
    /\ status = "completed"
    /\ response = Response("answer", 400, None)
    /\ DOMAIN db_answers # {}
    /\ reports # <<>>

\* C29: on a session that is not completed and whose expires_at has passed,
\* submit_answer sets the status to abandoned and is rejected, and neither
\* submit_answer nor go_back nor complete_survey changes the stored answers or
\* the flow state.
C29_ExpiredIsFrozen ==
    [][(expired /\ status \in {"in_progress", "abandoned"}) =>
          /\ response'.op = "answer" =>
                (status' = "abandoned" /\ response'.code = 410)
          /\ response'.op \in {"answer", "back", "complete"} =>
                (db_answers' = db_answers /\ progress' = progress)]_vars

\* ------------------------------------------------------------------------
\* The editor API and the stored configurations (SpecStore)
\* ------------------------------------------------------------------------
MaxSurveys == 2

\* a SurveyConfig row; the row of an id is kept as deleted once it is deleted
Row(json_config, is_active) ==
    [json_config |-> json_config, is_active |-> is_active, deleted |-> FALSE]
DeletedRow == [json_config |-> NoConfig, is_active |-> FALSE, deleted |-> TRUE]

\* select(SurveyConfig).where(SurveyConfig.id == survey_id) finds a row
RowFound(survey_id) == survey_id \in 1..Len(surveys) /\ ~surveys[survey_id].deleted

\* the structures and dicts the editor's client sends: two valid graphs, a rule
\* to a node that does not exist, a start_node that names no node, and {}
StoreStructures ==
    EditStructures \cup {GraphCycle, [GraphLinear EXCEPT !.start_node = "ghost"], NoConfig}

\* what the session variables other than response keep in an editor request
store_unchanged ==
    <<search, alerts, rate, cleanup, sessions, config, call, evaluation, status, expired, progress,
      db_answers, reports, requests, loaded_config, percent>>

\* the validation of json_config, then HTTP 400 or the commit of the rows
ValidateThenStore(op, json_config, rows) ==
    LET result == validate_survey_structure(json_config)
    IN /\ validation' = [made |-> TRUE, runs |-> 1, valid |-> result.valid,
                         errors |-> result.errors, warnings |-> result.warnings]
       /\ IF ~result.valid
          THEN /\ response' = Response(op, 400, None)
               /\ UNCHANGED surveys
          ELSE /\ surveys' = rows
               /\ response' = Response(op, 200, None)
       /\ UNCHANGED store_unchanged

\* POST /surveys (create_survey)
CreateSurvey(structure) ==
    /\ Len(surveys) < MaxSurveys
    /\ LET json_config == convert_to_json_config(structure)
       IN ValidateThenStore("create", json_config, Append(surveys, Row(json_config, TRUE)))

\* PUT /surveys/{survey_id} (update_survey) on a stored row
UpdateStored(survey_id, structure) ==
    IF ~RowFound(survey_id)
    THEN /\ response' = Response("update", 404, None)
         /\ UNCHANGED <<surveys, validation, store_unchanged>>
    ELSE LET json_config == convert_to_json_config(structure)
         IN ValidateThenStore("update", json_config,
                              [surveys EXCEPT ![survey_id].json_config = json_config])

\* the imported dict is stored without its validation
ImportSurvey_Unchecked(config_data) ==
    /\ Len(surveys) < MaxSurveys
    /\ surveys' = Append(surveys, Row(config_data, FALSE))
    /\ response' = Response("import", 200, None)
    /\ UNCHANGED <<validation, store_unchanged>>

\* POST /surveys/import (import_survey)
ImportSurvey(config_data) ==
    /\ Len(surveys) < MaxSurveys
    /\ ValidateThenStore("import", config_data, Append(surveys, Row(config_data, FALSE)))

\* POST /surveys/{survey_id}/duplicate (duplicate_survey)
DuplicateSurvey(survey_id) ==
    /\ Len(surveys) < MaxSurveys
    /\ IF ~RowFound(survey_id)
       THEN /\ response' = Response("duplicate", 404, None)
            /\ UNCHANGED surveys
       ELSE /\ surveys' = Append(surveys, Row(surveys[survey_id].json_config, FALSE))
            /\ response' = Response("duplicate", 200, None)
    /\ UNCHANGED <<validation, store_unchanged>>

\* DELETE /surveys/{survey_id} (delete_survey)
DeleteSurvey(survey_id) ==
    /\ IF ~RowFound(survey_id)
       THEN /\ response' = Response("delete", 404, None)
            /\ UNCHANGED surveys
       ELSE /\ surveys' = [surveys EXCEPT ![survey_id] = DeletedRow]
            /\ response' = Response("delete", 200, None)
    /\ UNCHANGED <<validation, store_unchanged>>

InitStore ==
    /\ config = NoConfig
    /\ call = NoCall
    /\ validation = NoValidation
    /\ evaluation = NoEvaluation
    /\ NoSession
    /\ NoOther

NextStore ==
    \/ \E structure \in StoreStructures \ {NoConfig} : CreateSurvey(structure)
    \/ \E survey_id \in 1..MaxSurveys, structure \in StoreStructures \ {NoConfig} :
          UpdateStored(survey_id, structure)
    \/ \E config_data \in StoreStructures : ImportSurvey(config_data)
    \/ \E survey_id \in 1..MaxSurveys : DuplicateSurvey(survey_id)
    \/ \E survey_id \in 1..MaxSurveys : DeleteSurvey(survey_id)

SpecStore == InitStore /\ [][NextStore]_vars

\* ------------------------------------------------------------------------
\* The report's alerts (SpecAlerts)
\* ------------------------------------------------------------------------
\* an answer dict as _generate_v2_alerts reads it: its selected and its
\* smoking_years keys, NoneVal for a key that is absent
AlertAnswer(selected, smoking_years) ==
    [selected |-> selected, smoking_years |-> smoking_years]

\* one alert of the block: the rule it belongs to and the text its message embeds
Alert(rule, detail) == [rule |-> rule, detail |-> detail]

\* smoking_years > 10 raises TypeError on a str and on a list
Over10Raises(v) == v.t \in {"str", "list", "none"}
Over10(v) == IF v.t = "float" THEN v.n > 20 ELSE v.n > 10

\* the findings of the cardio alert, in the order of lines 593-606
CardioFindings(answers) ==
    LET trigger == answers["cardio_trigger"].selected
        irrad == answers["cardio_pain_irradiation"].selected
        nitro == answers["cardio_nitro"].selected
        edema == answers["cardio_edema"].selected
        her_selected == answers["heredity"].selected
    IN (IF trigger = StrVal(Word("exercise")) THEN <<"exercise">> ELSE <<>>)
       \o (IF irrad \in {StrVal(Word("left_arm")), StrVal(Word("neck_jaw"))}
           THEN <<irrad.s[1]>> ELSE <<>>)
       \o (IF nitro = StrVal(Word("yes")) THEN <<"nitro">> ELSE <<>>)
       \o (IF Truthy(edema) /\ edema # StrVal(Word("no")) THEN <<"edema">> ELSE <<>>)
       \o (IF her_selected.t = "list" /\ Word("cardio") \in Range(her_selected.l)
           THEN <<"heredity">> ELSE <<>>)

\* ReportGenerator._generate_v2_alerts(answers): the alerts in the order they are
\* appended; <<>> stands for the None returned when no alert fired
_generate_v2_alerts(answers) ==
    LET Selected(node_id, value) == answers[node_id].selected = StrVal(Word(value))
        Holds(node_id, value) ==
            /\ answers[node_id].selected.t = "list"
            /\ Word(value) \in Range(answers[node_id].selected.l)
        smoking_years == IF answers["smoking_details"].smoking_years = NoneVal
                         THEN IntVal(0)
                         ELSE answers["smoking_details"].smoking_years
        compared == Selected("resp_filter", "yes") /\ Truthy(smoking_years)
        copd == IF compared /\ ~Over10Raises(smoking_years) /\ Over10(smoking_years)
                THEN <<Alert("copd", Str(smoking_years))>> ELSE <<>>
        sputum == IF Selected("resp_sputum_color", "bloody")
                  THEN <<Alert("hemoptysis", <<>>)>> ELSE <<>>
        cardio == IF Selected("cardio_filter", "yes") /\ CardioFindings(answers) # <<>>
                  THEN <<Alert("cardio", CardioFindings(answers))>> ELSE <<>>
        gastro == IF ~Selected("gastro_filter", "yes") THEN <<>>
                  ELSE (IF Selected("gastro_meal_relation", "hungry")
                        THEN <<Alert("gastro", <<>>)>> ELSE <<>>)
                       \o (IF Selected("gastro_blood", "yes")
                           THEN <<Alert("gi_bleeding", <<>>)>> ELSE <<>>)
                       \o (IF Holds("gastro_dyspepsia", "coffee_ground_vomit")
                           THEN <<Alert("gi_bleeding_vomit", <<>>)>> ELSE <<>>)
        onco == IF Holds("heredity", "oncology")
                THEN <<Alert("oncology", <<>>)>> ELSE <<>>
    IN IF compared /\ Over10Raises(smoking_years) THEN Raised
       ELSE Returned(copd \o sputum \o cardio \o gastro \o onco)

\* the nodes the function reads
AlertNodes ==
    <<"resp_filter", "smoking_details", "resp_sputum_color", "cardio_filter",
      "cardio_trigger", "cardio_pain_irradiation", "cardio_nitro", "cardio_edema",
      "heredity", "gastro_filter", "gastro_meal_relation", "gastro_blood",
      "gastro_dyspepsia">>

\* the answers a session can have recorded for a node
AlertChoices(node_id) ==
    CASE node_id = "smoking_details" ->
            {AlertAnswer(NoneVal, y) :
                y \in {NoneVal, IntVal(5), IntVal(15), StrVal(Word("15"))}}
      [] node_id = "resp_filter" ->
            {AlertAnswer(StrVal(Word(v)), NoneVal) : v \in {"yes", "no"}}
      [] node_id = "resp_sputum_color" ->
            {AlertAnswer(NoneVal, NoneVal), AlertAnswer(StrVal(Word("bloody")), NoneVal)}
      [] node_id = "cardio_trigger" ->
            {AlertAnswer(NoneVal, NoneVal), AlertAnswer(StrVal(Word("exercise")), NoneVal)}
      [] node_id = "cardio_pain_irradiation" ->
            {AlertAnswer(NoneVal, NoneVal), AlertAnswer(StrVal(Word("left_arm")), NoneVal)}
      [] node_id = "cardio_edema" ->
            {AlertAnswer(StrVal(Word(v)), NoneVal) : v \in {"no", "legs"}}
      [] node_id = "heredity" ->
            {AlertAnswer(NoneVal, NoneVal),
             AlertAnswer(ListVal(<<Word("cardio"), Word("oncology")>>), NoneVal),
             AlertAnswer(StrVal(Word("cardio")), NoneVal)}
      [] node_id = "gastro_meal_relation" ->
            {AlertAnswer(NoneVal, NoneVal), AlertAnswer(StrVal(Word("hungry")), NoneVal)}
      [] node_id = "gastro_dyspepsia" ->
            {AlertAnswer(NoneVal, NoneVal),
             AlertAnswer(ListVal(<<Word("coffee_ground_vomit")>>), NoneVal)}
      [] OTHER ->
            {AlertAnswer(NoneVal, NoneVal), AlertAnswer(StrVal(Word("yes")), NoneVal)}

\* the answer maps over the first k of the nodes
RECURSIVE AnswersOver(_)
AnswersOver(k) ==
    IF k = 0 THEN {EmptyDict}
    ELSE {Put(d, AlertNodes[k], a) : d \in AnswersOver(k - 1), a \in AlertChoices(AlertNodes[k])}

AlertAnswers == AnswersOver(Len(AlertNodes))

\* generator._generate_v2_alerts(answers) on the drawn answers
GenerateAlerts ==
    /\ ~alerts.made
    /\ LET outcome == _generate_v2_alerts(alerts.answers)
       IN alerts' = [alerts EXCEPT !.made = TRUE,
                                  !.raised = outcome.raised,
                                  !.result = IF outcome.raised THEN <<>> ELSE outcome.value]
    /\ UNCHANGED <<search, surveys, rate, cleanup, sessions, config, engine_vars, session_vars>>

InitAlerts ==
    /\ config = NoConfig
    /\ call = NoCall
    /\ validation = NoValidation
    /\ evaluation = NoEvaluation
    /\ NoSession
    /\ search = NoSearch
    /\ surveys = <<>>
    /\ rate = NoRate
    /\ cleanup = NoCleanup
    /\ sessions = NoSessions
    /\ alerts \in {[NoAlerts EXCEPT !.answers = a] : a \in AlertAnswers}

NextAlerts == GenerateAlerts

SpecAlerts == InitAlerts /\ [][NextAlerts]_vars

\* ------------------------------------------------------------------------
\* The rate limiter, requests of one identifier in flight (SpecRate)
\* ------------------------------------------------------------------------
\* rate.value is the counter under the key ratelimit:<identifier>, 0 when the key
\* does not exist; rate.ttl says that the key has an expiry; rate.granted counts
\* the requests allowed since the key last expired.
Limit == 2
MaxRequests == 3

\* a request in check_rate_limit: pc "new" -> "read" -> "done"
RateRequest == [pc |-> "new", found |-> FALSE, current |-> 0, allowed |-> FALSE, remaining |-> 0]

\* current = await self.client.get(key): the coroutine is suspended afterwards
RateGet(r) ==
    /\ rate.requests[r].pc = "new"
    /\ rate' = [rate EXCEPT !.requests[r].pc = "read",
                            !.requests[r].found = rate.value # 0,
                            !.requests[r].current =
                                IF rate.value = 0 THEN 0
                                ELSE ParseInt(NatToText(rate.value)).n]
    /\ UNCHANGED <<search, surveys, alerts, cleanup, sessions, config, engine_vars, session_vars>>

\* the rest of check_rate_limit on the value read: setex with 1, the refusal, or
\* incr, which creates a key without expiry when the key is gone
RateAct(r) ==
    /\ rate.requests[r].pc = "read"
    /\ LET q == rate.requests[r]
       IN rate' =
            IF ~q.found
            THEN [rate EXCEPT !.value = 1, !.ttl = TRUE, !.granted = @ + 1,
                              !.requests[r].pc = "done",
                              !.requests[r].allowed = TRUE,
                              !.requests[r].remaining = Limit - 1]
            ELSE IF q.current >= Limit
            THEN [rate EXCEPT !.requests[r].pc = "done",
                              !.requests[r].allowed = FALSE,
                              !.requests[r].remaining = 0]
            ELSE [rate EXCEPT !.value = @ + 1, !.granted = @ + 1,
                              !.requests[r].pc = "done",
                              !.requests[r].allowed = TRUE,
                              !.requests[r].remaining = Limit - q.current - 1]
    /\ UNCHANGED <<search, surveys, alerts, cleanup, sessions, config, engine_vars, session_vars>>

\* the window of the key has elapsed: Redis drops a key that has an expiry
WindowEnds ==
    /\ rate.value # 0
    /\ rate.ttl
    /\ rate' = [rate EXCEPT !.value = 0, !.ttl = FALSE, !.granted = 0]
    /\ UNCHANGED <<search, surveys, alerts, cleanup, sessions, config, engine_vars, session_vars>>

InitRate ==
    /\ config = NoConfig
    /\ call = NoCall
    /\ validation = NoValidation
    /\ evaluation = NoEvaluation
    /\ NoSession
    /\ search = NoSearch
    /\ surveys = <<>>
    /\ alerts = NoAlerts
    /\ rate = [NoRate EXCEPT !.requests = [r \in 1..MaxRequests |-> RateRequest]]
    /\ cleanup = NoCleanup
    /\ sessions = NoSessions

NextRate == WindowEnds \/ \E r \in 1..MaxRequests : RateGet(r) \/ RateAct(r)

SpecRate == InitRate /\ [][NextRate]_vars

\* ------------------------------------------------------------------------
\* One session, its complete_survey requests in flight and the periodic
\* cleanup task (SpecLifecycle)
\* ------------------------------------------------------------------------
\* the complete_survey requests that can be in flight together
MaxCompletes == 2

\* a complete_survey request: pc "new" -> "loaded" -> "sent" -> "done"; answers is
\* its answers_dict, report_sent what the CRM client returned
CompleteRequest == [pc |-> "new", answers |-> EmptyDict, report_sent |-> FALSE]

\* the id of the one session row
SessionId == "s1"

\* complete_survey up to the report generator: the session row is read, a
\* completed session is answered at once, otherwise the SurveyAnswer rows are
\* read into answers_dict
CompleteLoad(r) ==
    /\ requests[r].pc = "new"
    /\ IF status = "none"
       THEN /\ response' = Response("complete", 404, None)
            /\ requests' = [requests EXCEPT ![r].pc = "done"]
       ELSE IF status = "completed"
       THEN /\ response' = Response("complete", 200, None)
            /\ requests' = [requests EXCEPT ![r].pc = "done", ![r].report_sent = TRUE]
       ELSE /\ response' = response
            /\ requests' = [requests EXCEPT ![r].pc = "loaded", ![r].answers = db_answers]
    /\ percent' = NoPercent
    /\ UNCHANGED <<other_vars, config, engine_vars, status, expired, progress, db_answers,
                   reports, loaded_config>>

\* the report is generated from answers_dict and handed to the CRM: as a PDF,
\* or as a comment when the PDF was not sent; sent: the CRM took one of them
CompleteSend(r, sent) ==
    /\ requests[r].pc = "loaded"
    /\ reports' = IF sent THEN Append(reports, requests[r].answers) ELSE reports
    /\ requests' = [requests EXCEPT ![r].pc = "sent", ![r].report_sent = sent]
    /\ UNCHANGED <<other_vars, config, engine_vars, status, expired, progress, db_answers,
                   response, loaded_config, percent>>

\* the status is set to completed, the flow state is deleted, the row is
\* committed
CompleteCommit(r) ==
    /\ requests[r].pc = "sent"
    /\ status' = "completed"
    /\ progress' = NoProgress
    /\ response' = Response("complete", 200, None)
    /\ percent' = NoPercent
    /\ requests' = [requests EXCEPT ![r].pc = "done"]
    /\ UNCHANGED <<other_vars, config, engine_vars, expired, db_answers, reports,
                   loaded_config>>

\* the task the application starts imports a name app.core.database does not
\* define: the coroutine ends with ImportError before its loop
CleanupImport ==
    /\ cleanup.task = "app"
    /\ cleanup.alive
    /\ cleanup' = [cleanup EXCEPT !.alive = FALSE]
    /\ UNCHANGED <<search, surveys, alerts, rate, sessions, config, engine_vars, session_vars>>

\* one round of the cleanup begins: the ids of the sessions that are
\* in_progress with expires_at in the past are selected; with none the round
\* is over
CleanupSelect ==
    /\ cleanup.task = "script"
    /\ cleanup.alive
    /\ cleanup.pc = "idle"
    /\ LET session_ids == IF status = "in_progress" /\ expired THEN {SessionId} ELSE {}
       IN cleanup' = [cleanup EXCEPT !.pc = IF session_ids = {} THEN "idle" ELSE "selected",
                                     !.session_ids = session_ids,
                                     !.count = 0]
    /\ UNCHANGED <<search, surveys, alerts, rate, sessions, config, engine_vars, session_vars>>

\* mutant: the round ends without writing any row
CleanupUpdate_LeavesStatus ==
    /\ cleanup.pc = "selected"
    /\ status' = status
    /\ cleanup' = [cleanup EXCEPT !.pc = "idle", !.session_ids = {},
                                  !.count = Cardinality(cleanup.session_ids)]
    /\ UNCHANGED <<search, surveys, alerts, rate, sessions, config, engine_vars, expired,
                   progress, db_answers, reports, response, requests, loaded_config,
                   percent>>

\* the round ends: every row whose id was selected gets status abandoned,
\* whatever its status is by now
CleanupUpdate ==
    /\ cleanup.pc = "selected"
    /\ status' = IF SessionId \in cleanup.session_ids /\ status # "none"
                 THEN "abandoned" ELSE status
    /\ cleanup' = [cleanup EXCEPT !.pc = "idle", !.session_ids = {},
                                  !.count = Cardinality(cleanup.session_ids)]
    /\ UNCHANGED <<search, surveys, alerts, rate, sessions, config, engine_vars, expired,
                   progress, db_answers, reports, response, requests, loaded_config,
                   percent>>

CleanupStep == CleanupImport \/ CleanupSelect \/ CleanupUpdate

\* the two cleanup tasks of the repository: the one the application starts
\* and the one of the script
CleanupTasks == {"app", "script"}

InitLifecycle ==
    /\ config = GraphLinear
    /\ call = NoCall
    /\ validation = NoValidation
    /\ evaluation = NoEvaluation
    /\ status = "none"
    /\ expired = FALSE
    /\ progress = NoProgress
    /\ db_answers = EmptyDict
    /\ reports = <<>>
    /\ response = NoResponse
    /\ requests = [r \in 1..MaxCompletes |-> CompleteRequest]
    /\ loaded_config = NoConfig
    /\ percent = NoPercent
    /\ search = NoSearch
    /\ surveys = <<>>
    /\ alerts = NoAlerts
    /\ rate = NoRate
    /\ cleanup \in {[NoCleanup EXCEPT !.task = t, !.alive = TRUE] : t \in CleanupTasks}
    /\ sessions = NoSessions

NextLifecycle ==
    \/ StartSurvey
    \/ SubmitAnswer("n1", FirstAnswer)
    \/ TimePasses
    \/ \E r \in 1..MaxCompletes :
          \/ CompleteLoad(r)
          \/ \E sent \in BOOLEAN : CompleteSend(r, sent)
          \/ CompleteCommit(r)
    \/ CleanupImport
    \/ CleanupSelect
    \/ CleanupUpdate

\* the cleanup task is a loop that sleeps and runs again: it is never
\* suspended for ever
SpecLifecycle == InitLifecycle /\ [][NextLifecycle]_vars /\ WF_vars(CleanupStep)

\* ------------------------------------------------------------------------
\* start_survey requests in flight on the table of sessions (SpecStart)
\* ------------------------------------------------------------------------
\* the start_survey requests that can be in flight together
MaxStarts == 2

\* the token hashes of the links handed out
TokenHashes == {"t1", "t2"}

\* a SurveySession row; its id is its position in sessions.rows
SessionRow(token_hash, session_status) == [token_hash |-> token_hash, status |-> session_status]

\* a start_survey request: pc "new" -> "checked" -> "committed" -> "done"; code
\* and session_id are its response
StartRequest ==
    [pc |-> "new", token_hash |-> None, existing |-> 0, created |-> 0,
     code |-> 0, session_id |-> 0]

\* the ids of the rows with the token hash
RowsOf(token_hash) ==
    {i \in 1..Len(sessions.rows) : sessions.rows[i].token_hash = token_hash}

\* start_survey up to the decision on the existing session: the blacklist is
\* asked, the row of the token hash is selected; a session found is returned
\* (a completed one refused) and nothing is written
StartSelect(r, token_hash) ==
    /\ sessions.requests[r].pc = "new"
    /\ LET q == [sessions.requests[r] EXCEPT !.token_hash = token_hash]
           found == RowsOf(token_hash)
           existing == IF found = {} THEN 0 ELSE CHOOSE i \in found : TRUE
       IN sessions' =
            IF token_hash \in sessions.blacklist
            THEN [sessions EXCEPT !.requests[r] = [q EXCEPT !.pc = "done", !.code = 401]]
            ELSE IF existing = 0
            THEN [sessions EXCEPT !.requests[r] = [q EXCEPT !.pc = "checked"]]
            ELSE IF sessions.rows[existing].status = "completed"
            THEN [sessions EXCEPT !.requests[r] =
                      [q EXCEPT !.pc = "done", !.existing = existing, !.code = 400]]
            ELSE [sessions EXCEPT !.requests[r] =
                      [q EXCEPT !.pc = "done", !.existing = existing, !.code = 200,
                                !.session_id = existing]]
    /\ UNCHANGED <<search, surveys, alerts, rate, cleanup, config, engine_vars, session_vars>>

\* mutant: token_hash has no unique constraint, the row is always inserted
StartInsert_NoUniqueConstraint(r) ==
    /\ sessions.requests[r].pc = "checked"
    /\ sessions' =
          [sessions EXCEPT !.rows = Append(@, SessionRow(sessions.requests[r].token_hash,
                                                        "in_progress")),
                           !.progress = Append(@, NoProgress),
                           !.requests[r].pc = "committed",
                           !.requests[r].created = Len(sessions.rows) + 1]
    /\ UNCHANGED <<search, surveys, alerts, rate, cleanup, config, engine_vars, session_vars>>

\* the new row is flushed and committed: token_hash is unique, so with a row
\* of that hash in the table the INSERT raises and the request ends with 500
StartInsert(r) ==
    /\ sessions.requests[r].pc = "checked"
    /\ sessions' =
          IF RowsOf(sessions.requests[r].token_hash) # {}
          THEN [sessions EXCEPT !.requests[r].pc = "done", !.requests[r].code = 500]
          ELSE [sessions EXCEPT !.rows = Append(@, SessionRow(sessions.requests[r].token_hash,
                                                             "in_progress")),
                                !.progress = Append(@, NoProgress),
                                !.requests[r].pc = "committed",
                                !.requests[r].created = Len(sessions.rows) + 1]
    /\ UNCHANGED <<search, surveys, alerts, rate, cleanup, config, engine_vars, session_vars>>

\* the flow state of the new session is saved and its id returned
StartSave(r) ==
    /\ sessions.requests[r].pc = "committed"
    /\ sessions' =
          [sessions EXCEPT !.progress[sessions.requests[r].created] = StartProgress(config),
                           !.requests[r].pc = "done",
                           !.requests[r].code = 200,
                           !.requests[r].session_id = sessions.requests[r].created]
    /\ UNCHANGED <<search, surveys, alerts, rate, cleanup, config, engine_vars, session_vars>>

\* a start_survey response has handed the id of session i to the client
Handed(i) ==
    \E r \in 1..Len(sessions.requests) :
        sessions.requests[r].pc = "done" /\ sessions.requests[r].session_id = i

\* the client of session i has an answer to n1 accepted
SessionAnswer(i) ==
    /\ Handed(i)
    /\ sessions.rows[i].status = "in_progress"
    /\ sessions' = [sessions EXCEPT !.progress[i] =
                                       AnswerUpdate(config, @, "n1", FirstAnswer)]
    /\ UNCHANGED <<search, surveys, alerts, rate, cleanup, config, engine_vars, session_vars>>

\* session i is completed: its token is blacklisted, its flow state deleted
SessionComplete(i) ==
    /\ Handed(i)
    /\ sessions.rows[i].status = "in_progress"
    /\ sessions' = [sessions EXCEPT !.rows[i].status = "completed",
                                    !.progress[i] = NoProgress,
                                    !.blacklist = @ \cup {sessions.rows[i].token_hash}]
    /\ UNCHANGED <<search, surveys, alerts, rate, cleanup, config, engine_vars, session_vars>>

\* the blacklist key of a token hash runs out
BlacklistExpires(token_hash) ==
    /\ token_hash \in sessions.blacklist
    /\ sessions' = [sessions EXCEPT !.blacklist = @ \ {token_hash}]
    /\ UNCHANGED <<search, surveys, alerts, rate, cleanup, config, engine_vars, session_vars>>

InitStart ==
    /\ config = GraphLinear
    /\ call = NoCall
    /\ validation = NoValidation
    /\ evaluation = NoEvaluation
    /\ NoSession
    /\ search = NoSearch
    /\ surveys = <<>>
    /\ alerts = NoAlerts
    /\ rate = NoRate
    /\ cleanup = NoCleanup
    /\ sessions = [NoSessions EXCEPT !.requests = [r \in 1..MaxStarts |-> StartRequest]]

NextStart ==
    \/ \E r \in 1..MaxStarts :
          \/ \E token_hash \in TokenHashes : StartSelect(r, token_hash)
          \/ StartInsert(r)
          \/ StartSave(r)
    \/ \E i \in 1..Len(sessions.rows) : SessionAnswer(i)
    \/ \E i \in 1..Len(sessions.rows) : SessionComplete(i)
    \/ \E token_hash \in TokenHashes : BlacklistExpires(token_hash)

SpecStart == InitStart /\ [][NextStart]_vars

\* ------------------------------------------------------------------------
\* Validator claims (checked under SpecShape)
\* ------------------------------------------------------------------------
\* start_node is set and is the id of no node
StartMissing(structure) ==
    TruthyId(structure.start_node) /\ structure.start_node \notin NodeIdSet(structure)

\* the graph has no error once start_node names its first node
OtherwiseWellFormed(structure) ==
    validate_survey_structure(
        [structure EXCEPT !.start_node = structure.nodes[1].id]).errors = <<>>

\* C21: a graph whose start_node is set but names no node is not valid, and when
\* the graph is otherwise well-formed its error list is exactly one error, which
\* references that start_node.
C21_MissingStartNode ==
    (validation.made /\ StartMissing(config)) =>
        /\ ~validation.valid
        /\ OtherwiseWellFormed(config) =>
              /\ Len(validation.errors) = 1
              /\ validation.errors[1].type = "error"
              /\ validation.errors[1].node_id = config.start_node
              /\ validation.errors[1].ref = config.start_node

C21_Witness ==
    /\ validation.made
    /\ config.start_node = "ghost"
    /\ OtherwiseWellFormed(config)
    /\ Len(validation.errors) = 1
    /\ Len(validation.warnings) >= 3

\* the rules of the graph whose next_node is the id of no node: <<node, rule>>
DanglingRules(structure) ==
    {<<i, j>> \in (1..Len(structure.nodes)) \X (1..MaxRules) :
        /\ j <= Len(structure.nodes[i].logic)
        /\ structure.nodes[i].logic[j].next_node \notin NodeIdSet(structure)}

\* C22: every logic rule whose next_node is not the id of an existing node gives
\* an error that names the referencing node, and the graph is not valid.
C22_DanglingRuleIsError ==
    validation.made =>
        \A r \in DanglingRules(config) :
            /\ ~validation.valid
            /\ \E e \in Range(validation.errors) :
                  /\ e.node_id = config.nodes[r[1]].id
                  /\ e.ref = config.nodes[r[1]].logic[r[2]].next_node

\* the structural closure of start_node over next_node edges, as a fixpoint
RECURSIVE CloseOver(_, _)
CloseOver(structure, S) ==
    LET step == S \cup {structure.nodes[i].logic[j].next_node :
                           <<i, j>> \in {x \in (1..Len(structure.nodes)) \X (1..MaxRules) :
                                            /\ structure.nodes[x[1]].id \in S
                                            /\ x[2] <= Len(structure.nodes[x[1]].logic)}}
        kept == step \cap NodeIdSet(structure)
    IN IF kept = S THEN S ELSE CloseOver(structure, kept)

StructuralClosure(structure) ==
    CloseOver(structure, {structure.start_node} \cap NodeIdSet(structure))

\* C23: every node outside the structural closure of start_node is reported by a
\* warning and by no error, and valid is true exactly when the error list is
\* empty, whatever the warnings.
C23_UnreachableIsWarning ==
    validation.made =>
        /\ \A i \in 1..Len(config.nodes) :
              config.nodes[i].id \notin StructuralClosure(config) =>
                  /\ \E w \in Range(validation.warnings) :
                        w.kind = "unreachable" /\ w.node_id = config.nodes[i].id
                  /\ ~\E e \in Range(validation.errors) : e.kind = "unreachable"
        /\ \A e \in Range(validation.errors) : e.type = "error"
        /\ \A w \in Range(validation.warnings) : w.type = "warning"
        /\ validation.valid <=> validation.errors = <<>>

C23_Witness ==
    /\ validation.made
    /\ validation.valid
    /\ config.start_node = "n1"
    /\ "n3" \notin StructuralClosure(config)
    /\ \E w \in Range(validation.warnings) : w.kind = "unreachable" /\ w.node_id = "n3"

\* the search has returned
SearchDone == search.started /\ search.stack = <<>>

StoredConfigs == {surveys[i].json_config : i \in {j \in 1..Len(surveys) : ~surveys[j].deleted}}

\* C25: create_survey, update_survey and import_survey store a graph only when
\* its validation has no errors, a rejected request leaves the stored rows as
\* they were, and every stored configuration is valid.
C25_ValidatorGatesPublication ==
    /\ [](\A json_config \in StoredConfigs :
             validate_survey_structure(json_config).errors = <<>>)
    /\ [][/\ response'.code = 400 => surveys' = surveys
          /\ (response'.op \in {"create", "update", "import"} /\ surveys' # surveys) =>
                (validation'.valid /\ validation'.errors = <<>>)]_vars

\* an import was rejected with a row in the table, and a graph was stored
C25_Witness ==
    /\ response = Response("import", 400, None)
    /\ ~validation.valid
    /\ StoredConfigs = {GraphCycle}

\* ------------------------------------------------------------------------
\* Alert claims (checked under SpecAlerts)
\* ------------------------------------------------------------------------
\* the alerts of a rule in the returned block
AlertsOf(rule) == {i \in 1..Len(alerts.result) : alerts.result[i].rule = rule}

\* the trigger on a node matches: its selected is the value
TriggerMatches(node_id, value) == alerts.answers[node_id].selected = StrVal(Word(value))

\* the trigger on smoking_details matches: smoking_years is a number over 10
SmokingMatches ==
    LET years == alerts.answers["smoking_details"].smoking_years
    IN years.t \in {"int", "float"} /\ Over10(years)

\* C26: a rule that joins triggers on several nodes fires only if the trigger of
\* every one of its nodes matches, and fires exactly once, with its message,
\* when all match. The rules of the code that join triggers are the COPD alert
\* (resp_filter and smoking_details) and the cardio alert (cardio_filter with
\* cardio_trigger, cardio_pain_irradiation and cardio_nitro).
C26_AllModeRule ==
    (alerts.made /\ ~alerts.raised) =>
        /\ AlertsOf("copd") # {} => (TriggerMatches("resp_filter", "yes") /\ SmokingMatches)
        /\ (TriggerMatches("resp_filter", "yes") /\ SmokingMatches) =>
              /\ Cardinality(AlertsOf("copd")) = 1
              /\ \A i \in AlertsOf("copd") :
                    alerts.result[i].detail =
                        Str(alerts.answers["smoking_details"].smoking_years)
        /\ Cardinality(AlertsOf("cardio")) <= 1
        /\ AlertsOf("cardio") # {} =>
              /\ TriggerMatches("cardio_filter", "yes")
              /\ TriggerMatches("cardio_trigger", "exercise")
              /\ TriggerMatches("cardio_pain_irradiation", "left_arm")
              /\ TriggerMatches("cardio_nitro", "yes")

\* ------------------------------------------------------------------------
\* Rate limiter claims (checked under SpecRate)
\* ------------------------------------------------------------------------
\* C30: within one window at most Limit requests of an identifier are allowed,
\* also when they are in flight together; a refused request has remaining 0; a
\* key that counts requests has an expiry, so that its window elapses and the
\* identifier is allowed again.
C30_RateLimitHolds ==
    /\ rate.granted <= Limit
    /\ \A r \in 1..Len(rate.requests) :
          (rate.requests[r].pc = "done" /\ ~rate.requests[r].allowed) =>
              rate.requests[r].remaining = 0
    /\ rate.value # 0 => rate.ttl

\* ------------------------------------------------------------------------
\* Session status, report and history claims (checked under Spec)
\* ------------------------------------------------------------------------
\* C31: the status of a session only moves from in_progress to completed or
\* from in_progress to abandoned; a session that is completed or abandoned
\* never changes its status again.
C31_TerminalStatusIsFinal ==
    [][/\ status \in {"completed", "abandoned"} => status' = status
       /\ status' # status =>
             (status \in {"none", "in_progress"} /\ status' # "none")]_vars

\* C34: the answer map of the report of a completion is the answers of the
\* flow state the session has when complete_survey runs.
C34_ReportEqualsFlowAnswers ==
    [][(progress.stored /\ reports' # reports) =>
          reports'[Len(reports')] = progress.answers]_vars

\* C37: the history of a session contains no node id twice.
C37_HistoryHasNoDuplicates ==
    \A i, j \in 1..Len(progress.history) :
        progress.history[i] = progress.history[j] => i = j

\* an answer led to a node the history already holds, and the history was
\* left as it was: n2 of GraphCycle leads back to n1
C37_Witness ==
    /\ config = GraphCycle
    /\ response = Response("answer", 200, "n1")
    /\ progress.current_node = "n1"
    /\ progress.history = <<"n1", "n2">>

\* ------------------------------------------------------------------------
\* Cleanup and completion claims (checked under SpecLifecycle)
\* ------------------------------------------------------------------------
\* a step of the cleanup task that writes rows
CleanupWrites == cleanup.pc = "selected" /\ cleanup'.pc = "idle"

\* C32: the cleanup task never changes a completed session; the only status
\* change it makes is from in_progress, with expires_at in the past, to
\* abandoned, also when a complete_survey runs between its select and its
\* update.
C32_CleanupSparesCompleted ==
    [][CleanupWrites =>
          /\ status = "completed" => status' = "completed"
          /\ status' # status =>
                (status = "in_progress" /\ expired /\ status' = "abandoned")]_vars

\* the session is in_progress and its expires_at has passed
ExpiredInProgress == status = "in_progress" /\ expired

C35_ReportDeliveredOnce == Len(reports) <= 1

\* ------------------------------------------------------------------------
\* The sessions of a token (checked under SpecStart)
\* ------------------------------------------------------------------------
\* the unfinished sessions of the token hash
Unfinished(token_hash) ==
    {i \in RowsOf(token_hash) : sessions.rows[i].status # "completed"}

\* request r leaves start_survey's look-up in this step
Looks(r) == sessions.requests[r].pc = "new" /\ sessions'.requests[r].pc # "new"

====
